---- MODULE Spec2Model ----
(***************************************************************************)
(* Phoenix-SmartCaseAI: the multi-provider test-case generation pipeline   *)
(* of SmartCaseAI/generator.py (StoryBDDGenerator) together with the part  *)
(* of phoenix_smartcaseai/unified_file_analyzer.py it calls.               *)
(*                                                                         *)
(* A JSON object is a record whose DOMAIN is the object's key set; a JSON  *)
(* array is a sequence.  A response text is either text that is not JSON   *)
(* or the text of a JSON value.                                            *)
(***************************************************************************)
EXTENDS Integers, Sequences, FiniteSets, TLC

VARIABLES
    pc,                 \* position of the caller / of the running call
    llm_provider,       \* self.llm_provider
    llms,               \* self.llms: provider names in insertion order
    fa_clients,         \* self.file_analyzer.llm_clients (key set)
    output_format,      \* argument of generate_test_cases
    num_cases,          \* argument of generate_test_cases
    additional_files,   \* argument, after auto-discovery: file kinds
    additional_context, \* local of generate_test_cases
    multi,              \* which branch _generate took
    idx,                \* position of the for loop over self.llms.items()
    all_results,        \* local dict of _generate_with_multiple_providers
    response_content,   \* local of _generate_with_single_provider
    calls,              \* providers the engine was invoked for, in order
    completed,          \* providers whose engine invocation has ended
    net,                \* network requests issued, in order
    inflight,           \* provider whose chat request is outstanding
    root_result,        \* value returned by _generate
    result,             \* list returned by generate_test_cases
    failed,             \* providers whose engine invocation raised
    outcome,            \* "none" | "returned" | "raised"
    error,              \* the exception that reached the caller
    \* __init__ seen with its arguments
    ctor_args,          \* llm_provider, api_keys, os.environ of the call
    client_keys,        \* api key each client of self.llms was built with
    \* export_to_markdown
    export_pc,          \* position in export_to_markdown
    generate_calls,     \* output_format of each generate_test_cases call
    plain_tests,        \* local plain_tests
    bdd_tests,          \* local bdd_tests
    output_dir,         \* output_dir on disk: "absent" | "present" | "created"
    files_written,      \* files written to output_dir, in order
    export_result,      \* the dict export_to_markdown returned
    export_error,       \* the exception export_to_markdown raised
    \* analyze_multiple_files
    analyzer_pc,        \* position in analyze_multiple_files
    analyzer_impl,      \* "unified" | "legacy": whose method runs
    file_paths,         \* argument file_paths
    file_idx,           \* position of the for loop over file_paths
    file_results,       \* local results
    files_visited,      \* paths analyze_file was called with, in order
    analyzer_raised,    \* an exception left analyze_multiple_files
    combined_summary,   \* what generate_combined_analysis returned
    \* _analyze_pdf_file
    pdf_pc,             \* position in _analyze_pdf_file
    pdf_args,           \* whose method, the libraries installed, the file
    pdf_content,        \* local content
    pdf_attempts,       \* the backends that were asked for the text
    \* POST /generate-bdd
    web_pc,             \* position in generate_bdd
    web_args,           \* the form fields of the request
    web_locals,         \* generator, temp_dir, temp_files: bound or not
    web_disk,           \* temp directory and files that exist
    web_exc,            \* the exception that is propagating
    web_chosen,         \* status the handler chose: 0 before it has
    web_response,       \* status the client receives: 0 before it has
    web_generators,     \* StoryBDDGenerator objects constructed
    web_calls,          \* output_format of each generate_test_cases call
    \* POST /api/generate
    api_clock,          \* datetime.now(), in seconds
    api_pc,             \* position of each request in generate_test_cases
    api_args,           \* user_story and uploads of each request
    api_session,        \* local session_id of each request
    api_disk,           \* files under outputs_dir, with who wrote them last
    api_written         \* the paths each request has written

vars == <<pc, llm_provider, llms, fa_clients, output_format, num_cases,
          additional_files, additional_context, multi, idx, all_results,
          response_content, calls, completed, failed, net, inflight,
          root_result, result, outcome, error,
          ctor_args, client_keys,
          export_pc, generate_calls, plain_tests, bdd_tests, output_dir,
          files_written, export_result, export_error,
          analyzer_pc, analyzer_impl, file_paths, file_idx, file_results,
          files_visited, analyzer_raised, combined_summary,
          pdf_pc, pdf_args, pdf_content, pdf_attempts,
          web_pc, web_args, web_locals, web_disk, web_exc, web_chosen,
          web_response, web_generators, web_calls,
          api_clock, api_pc, api_args, api_session, api_disk, api_written>>

ctorVars == <<ctor_args, client_keys>>
exportVars == <<export_pc, generate_calls, plain_tests, bdd_tests, output_dir,
                files_written, export_result, export_error>>
analyzerVars == <<analyzer_pc, analyzer_impl, file_paths, file_idx,
                  file_results, files_visited, analyzer_raised,
                  combined_summary>>
pdfVars == <<pdf_pc, pdf_args, pdf_content, pdf_attempts>>
\* the extractors and the web handlers
webVars == <<web_pc, web_args, web_locals, web_disk, web_exc, web_chosen,
             web_response, web_generators, web_calls>>
apiVars == <<api_clock, api_pc, api_args, api_session, api_disk, api_written>>
serviceVars == <<pdfVars, webVars, apiVars>>
\* what the generation pipeline leaves alone
otherVars == <<ctorVars, exportVars, analyzerVars, serviceVars>>

(***************************************************************************)
(* Bounds of the model.                                                    *)
(***************************************************************************)
MaxItems == 2       \* longest JSON array a provider response carries
MaxNumCases == 3    \* largest num_cases a caller passes

None == "None"

\* num_cases: Optional[int]
NoLimit == [given |-> FALSE]
Limit(n) == [given |-> TRUE, n |-> n]
SampleNumCases == {NoLimit} \cup { Limit(n) : n \in 0..MaxNumCases }

\* the order in which __init__ fills self.llms
ProviderOrder == <<"openai", "gemini", "claude">>
ProviderNames == {"openai", "gemini", "claude"}

\* provider selections a caller passes to the constructor
SampleSelections == ProviderNames \cup {"all", "nonexistent_llm"}

\* output_format values a caller passes
SampleFormats == {"plain", "bdd", "Plain", "xml"}

\* additional_files lists a caller passes (file kinds by extension)
SampleFileLists == {<<>>, <<"doc">>}

\* str.lower() on the sample formats
Lower(s) == CASE s = "Plain" -> "plain"
              [] s = "BDD" -> "bdd"
              [] s = "XML" -> "xml"
              [] OTHER -> s

(***************************************************************************)
(* JSON objects a provider puts into its array.  "title" stands for the    *)
(* required text fields of TestCase, "scenario" for those of BDDScenario.  *)
(***************************************************************************)
PlainObjects == { [id |-> 2, title |-> "a"],
                  [id |-> 1, title |-> "b", provider |-> "llm"] }
BDDObjects == { [scenario |-> "a"],
                [scenario |-> "b", provider |-> "llm"] }
MalformedObject == [title |-> "a"]      \* lacks id, lacks scenario

ObjectsFor(fmt) ==
    (IF Lower(fmt) = "plain" THEN PlainObjects ELSE BDDObjects)
        \cup {MalformedObject}

SeqsUpTo(S, n) == UNION { [1..k -> S] : k \in 0..n }

\* JSON values
JArray(a) == [t |-> "array", v |-> a]
JObject(o) == [t |-> "object", v |-> o]
JString(s) == [t |-> "string", v |-> s]

\* response texts
NotJsonText == [json |-> FALSE]
JsonText(v) == [json |-> TRUE, value |-> v]

ArraysFor(fmt) == { JArray(a) : a \in SeqsUpTo(ObjectsFor(fmt), MaxItems) }

\* what a provider may answer to a prompt for fmt
ResponsesFor(fmt) ==
    {NotJsonText}
    \cup { JsonText(a) : a \in ArraysFor(fmt) }
    \cup { JsonText(JObject([items |-> a])) : a \in ArraysFor(fmt) }
    \cup { JsonText(JObject([items |-> JString("see above")])),
           JsonText(JObject([data |-> JArray(<<>>)])) }

(***************************************************************************)
(* Pydantic models and the output parser.                                  *)
(***************************************************************************)
Has(o, k) == k \in DOMAIN o
Get(o, k, default) == IF k \in DOMAIN o THEN o[k] ELSE default

\* TestCase(**d): id and the text fields are required, provider defaults to
\* None, keys that are no field are ignored
TestCaseValid(d) == Has(d, "id") /\ Has(d, "title")
TestCase(d) == [id |-> d.id, title |-> d.title,
                provider |-> Get(d, "provider", None)]

\* BDDScenario(**d): the text fields are required, provider defaults to None,
\* keys that are no field (an "id") are ignored
BDDScenarioValid(d) == Has(d, "scenario")
BDDScenario(d) == [scenario |-> d.scenario,
                   provider |-> Get(d, "provider", None)]

IsPlain(fmt) == Lower(fmt) = "plain"
IsBDD(fmt) == Lower(fmt) = "bdd"

ItemValid(fmt, d) == IF IsPlain(fmt) THEN TestCaseValid(d) ELSE BDDScenarioValid(d)
ItemOf(fmt, d) == IF IsPlain(fmt) THEN TestCase(d) ELSE BDDScenario(d)

ParseFailed(why) == [ok |-> FALSE, detail |-> why]
Parsed(items) == [ok |-> TRUE, items |-> items]

\* TestCaseList / BDDScenarioList validation of a JSON value: the root must
\* be an array and every element must validate
ValidateList(fmt, j) ==
    IF j.t = "array" /\ \A k \in 1..Len(j.v) : ItemValid(fmt, j.v[k])
    THEN Parsed([k \in 1..Len(j.v) |-> ItemOf(fmt, j.v[k])])
    ELSE ParseFailed("schema")

\* parser.parse(text)
ParserParse(fmt, text) ==
    IF text.json THEN ValidateList(fmt, text.value) ELSE ParseFailed("not json")

\* json.loads / json.dumps
JsonLoads(text) == IF text.json THEN [ok |-> TRUE, value |-> text.value]
                   ELSE [ok |-> FALSE]
JsonDumps(v) == JsonText(v)

\* variant: the strict parse alone, no {"items": ...} fallback
ParseResponseStrictOnly(fmt, text) ==
    LET first == ParserParse(fmt, text)
    IN  IF first.ok THEN first ELSE ParseFailed("original")

\* the response handling of _generate_with_single_provider: the strict
\* parse, then the {"items": ...} fallback.  detail "original" is the strict
\* parse error of the raw text, "fallback" the error of the second parse.
ParseResponse(fmt, text) ==
    LET first == ParserParse(fmt, text)
        loaded == JsonLoads(text)
    IN  IF first.ok THEN first
        ELSE IF ~loaded.ok THEN ParseFailed("original")
        ELSE IF loaded.value.t = "object" /\ Has(loaded.value.v, "items")
             THEN LET second == ParserParse(fmt, JsonDumps(loaded.value.v.items))
                  IN  IF second.ok THEN second ELSE ParseFailed("fallback")
        ELSE ParseFailed("original")

(***************************************************************************)
(* The merge of _generate_with_multiple_providers.  all_results is the     *)
(* dict in insertion order: a sequence of [provider, items].               *)
(***************************************************************************)
\* variant: the provider's own id is kept
StampCaseKeepId(case, counter, provider_name) ==
    [k \in DOMAIN case \cup {"id", "provider"} |->
        IF k = "provider" THEN provider_name
        ELSE IF k \in DOMAIN case THEN case[k]
        ELSE counter]

\* variant: a provider value that the response carried is kept
\* (case_dict.setdefault('provider', provider_name) on a set value)
StampCaseKeepProvider(case, counter, provider_name) ==
    [k \in DOMAIN case \cup {"id", "provider"} |->
        IF k = "id" THEN counter
        ELSE IF k = "provider"
             THEN (IF Get(case, "provider", None) # None
                   THEN case.provider ELSE provider_name)
        ELSE case[k]]

\* case_dict = case.dict(); case_dict['id'] = counter;
\* case_dict['provider'] = provider_name
StampCase(case, counter, provider_name) ==
    [k \in DOMAIN case \cup {"id", "provider"} |->
        IF k = "id" THEN counter
        ELSE IF k = "provider" THEN provider_name
        ELSE case[k]]

RECURSIVE CombineCases(_, _, _)
CombineCases(results, k, case_id_counter) ==
    IF k > Len(results) THEN <<>>
    ELSE LET provider_cases == results[k].items
             stamped == [j \in 1..Len(provider_cases) |->
                            StampCase(provider_cases[j],
                                      case_id_counter + j - 1,
                                      results[k].provider)]
         IN  stamped \o CombineCases(results, k + 1,
                                     case_id_counter + Len(provider_cases))

\* variant: a case whose text already occurs earlier in the merge is dropped
TextOf(case) == [k \in DOMAIN case \ {"id", "provider"} |-> case[k]]

RECURSIVE DropRepeated(_, _)
DropRepeated(cases, k) ==
    IF k > Len(cases) THEN <<>>
    ELSE IF \E j \in 1..(k - 1) : TextOf(cases[j]) = TextOf(cases[k])
    THEN DropRepeated(cases, k + 1)
    ELSE <<cases[k]>> \o DropRepeated(cases, k + 1)

MergeResultsDedup(fmt, results) ==
    LET combined_cases == DropRepeated(CombineCases(results, 1, 1), 1)
    IN  IF IsPlain(fmt)
        THEN [k \in 1..Len(combined_cases) |-> TestCase(combined_cases[k])]
        ELSE [k \in 1..Len(combined_cases) |-> BDDScenario(combined_cases[k])]

MergeResults(fmt, results) ==
    LET combined_cases == CombineCases(results, 1, 1)
    IN  IF IsPlain(fmt)
        THEN [k \in 1..Len(combined_cases) |-> TestCase(combined_cases[k])]
        ELSE [k \in 1..Len(combined_cases) |-> BDDScenario(combined_cases[k])]

(***************************************************************************)
(* The trim of generate_test_cases.                                        *)
(***************************************************************************)
Min(a, b) == IF a < b THEN a ELSE b
Max(a, b) == IF a > b THEN a ELSE b

\* variant: the bound taken as an inclusive 0-based index
SliceToInclusive(list, n) ==
    IF n >= 0 THEN SubSeq(list, 1, Min(n + 1, Len(list)))
    ELSE SubSeq(list, 1, Max(0, Len(list) + n))

\* list[:n]
SliceTo(list, n) ==
    IF n >= 0 THEN SubSeq(list, 1, Min(n, Len(list)))
    ELSE SubSeq(list, 1, Max(0, Len(list) + n))

\* if num_cases: result = result[:num_cases]
TrimResult(list, n) ==
    IF n.given /\ n.n # 0 THEN SliceTo(list, n.n) ELSE list

(***************************************************************************)
(* Exceptions.                                                             *)
(***************************************************************************)
MakeError(type, kind, provider, fmt, detail) ==
    [type |-> type, kind |-> kind, provider |-> provider, format |-> fmt,
     detail |-> detail]
NoError == MakeError(None, None, None, None, None)

\* raise ValueError("Output format must be 'plain' or 'bdd'.")
InvalidFormatError == MakeError("ValueError", "invalid_format", None, None, None)
\* variant: the message does not name the provider
GenerationErrorUnnamed(fmt, provider, detail) ==
    MakeError("Exception", "generation_failed", None, fmt, detail)

\* raise Exception(f"Failed to generate {output_format} test cases with
\* {provider_name}: {str(e)}")
GenerationError(fmt, provider, detail) ==
    MakeError("Exception", "generation_failed", provider, fmt, detail)
\* raise Exception("All LLM providers failed to generate test cases")
AllFailedError == MakeError("Exception", "all_failed", None, None, None)
\* the ValueErrors of __init__
MissingKeyError(provider) ==
    MakeError("ValueError", "missing_credential", provider, None, None)
UnsupportedError(selection) ==
    MakeError("ValueError", "unsupported_provider", None, None, selection)

(***************************************************************************)
(* StoryBDDGenerator.__init__.  keyed: the providers whose key is in       *)
(* api_keys or in the environment; gemini_ok: whether the                  *)
(* ChatGoogleGenerativeAI constructor succeeds.                            *)
(***************************************************************************)
\* variant: in "all" mode a provider without a key is skipped
InitLlmsSkipMissing(selection, keyed, gemini_ok) ==
    LET wants(p) == selection \in {p, "all"}
        has(p) == wants(p) /\ p \in keyed
        built == (IF has("openai") THEN <<"openai">> ELSE <<>>)
                 \o (IF has("gemini") /\ gemini_ok THEN <<"gemini">> ELSE <<>>)
                 \o (IF has("claude") THEN <<"claude">> ELSE <<>>)
    IN  IF selection \in ProviderNames /\ selection \notin keyed
        THEN [ok |-> FALSE, error |-> MissingKeyError(selection)]
        ELSE IF built = <<>>
        THEN [ok |-> FALSE, error |-> UnsupportedError(selection)]
        ELSE [ok |-> TRUE, llms |-> built]

\* variant: no check that a client was built
InitLlmsNoEmptyCheck(selection, keyed, gemini_ok) ==
    LET wants(p) == selection \in {p, "all"}
    IN  IF \E p \in ProviderNames : wants(p) /\ p \notin keyed
        THEN [ok |-> FALSE,
              error |-> MissingKeyError(
                  SelectSeq(ProviderOrder,
                            LAMBDA p : wants(p) /\ p \notin keyed)[1])]
        ELSE [ok |-> TRUE,
              llms |-> (IF wants("openai") THEN <<"openai">> ELSE <<>>)
                       \o (IF wants("gemini") /\ gemini_ok
                           THEN <<"gemini">> ELSE <<>>)
                       \o (IF wants("claude") THEN <<"claude">> ELSE <<>>)]

InitLlms(selection, keyed, gemini_ok) ==
    LET wants(p) == selection \in {p, "all"}
    IN  IF wants("openai") /\ "openai" \notin keyed
        THEN [ok |-> FALSE, error |-> MissingKeyError("openai")]
        ELSE IF wants("gemini") /\ "gemini" \notin keyed
        THEN [ok |-> FALSE, error |-> MissingKeyError("gemini")]
        ELSE IF wants("claude") /\ "claude" \notin keyed
        THEN [ok |-> FALSE, error |-> MissingKeyError("claude")]
        ELSE LET built ==
                     (IF wants("openai") THEN <<"openai">> ELSE <<>>)
                     \o (IF wants("gemini") /\ gemini_ok
                         THEN <<"gemini">> ELSE <<>>)
                     \o (IF wants("claude") THEN <<"claude">> ELSE <<>>)
             IN  IF built = <<>>
                 THEN [ok |-> FALSE, error |-> UnsupportedError(selection)]
                 ELSE [ok |-> TRUE, llms |-> built]

\* variant: a client for every provider the libraries support
AnalyzerClientsUnkeyed(keyed, gemini_ok) ==
    { p \in ProviderNames : p # "gemini" \/ gemini_ok }

\* UnifiedFileAnalyzer._initialize_llm_clients, given every key found
AnalyzerClients(keyed, gemini_ok) ==
    { p \in keyed : p # "gemini" \/ gemini_ok }

\* variant: the document order is used for every extension
GetProviderForFileDocFirst(kind, clients) ==
    IF "openai" \in clients THEN "openai"
    ELSE IF "claude" \in clients THEN "claude"
    ELSE IF "gemini" \in clients THEN "gemini"
    ELSE "none"

\* UnifiedFileAnalyzer.get_status_report: the entries about providers
GetStatusReport(clients) ==
    [available_providers |-> clients,
     visual_analysis_provider |->
         IF "gemini" \in clients THEN "gemini"
         ELSE IF "openai" \in clients THEN "openai" ELSE "none",
     document_analysis_providers |-> clients \cap {"openai", "claude"}]

\* UnifiedFileAnalyzer._get_provider_for_file
GetProviderForFile(kind, clients) ==
    IF kind \in {"img", "video"} /\ "gemini" \in clients THEN "gemini"
    ELSE IF kind \in {"img", "video"} /\ "openai" \in clients THEN "openai"
    ELSE IF "openai" \in clients THEN "openai"
    ELSE IF "claude" \in clients THEN "claude"
    ELSE IF "gemini" \in clients THEN "gemini"
    ELSE "none"

(***************************************************************************)
(* State machine.                                                          *)
(***************************************************************************)
NoResponse == [absent |-> TRUE]
NoArgs == [absent |-> TRUE]
NotCalled == [called |-> FALSE]

EnrichRequest(provider) == [kind |-> "enrich", provider |-> provider]

ContextHeader == "Additional Context from Files:"

\* variant: the section is rendered whether or not there is context
FullContextAlways(user_story, context) ==
    <<user_story, ContextHeader, context>>

\* full_context = user_story; if additional_context: full_context += ...
\* The text is the sequence of its parts.
FullContext(user_story, context) ==
    IF context # "" THEN <<user_story, ContextHeader, context>>
    ELSE <<user_story>>

\* chain.invoke({"story": full_context, ...}) on provider's client
GenerateRequest(provider) ==
    [kind |-> "generate", provider |-> provider,
     story |-> FullContext("user story", additional_context)]

MaxRequests == 2    \* requests the API server receives
MaxClock == 2       \* seconds the clock runs through

\* the requests to /api/generate
Requests == 1..MaxRequests
\* session_id before its assignment
NoSession == <<>>

\* the locals of generate_bdd before their assignment
Unbound == [bound |-> FALSE]

\* generate_combined_analysis has not been called
NoSummary == [called |-> FALSE]

Init ==
    /\ pc = "new"
    /\ llm_provider = None
    /\ llms = <<>>
    /\ fa_clients = {}
    /\ output_format = None
    /\ num_cases = NoLimit
    /\ additional_files = <<>>
    /\ additional_context = ""
    /\ multi = FALSE
    /\ idx = 0
    /\ all_results = <<>>
    /\ response_content = NoResponse
    /\ calls = <<>>
    /\ completed = <<>>
    /\ failed = <<>>
    /\ net = <<>>
    /\ inflight = None
    /\ root_result = <<>>
    /\ result = <<>>
    /\ outcome = "none"
    /\ error = NoError
    /\ ctor_args = NoArgs
    /\ client_keys = <<>>
    /\ export_pc = "idle"
    /\ generate_calls = <<>>
    /\ plain_tests = NotCalled
    /\ bdd_tests = NotCalled
    /\ output_dir = "absent"
    /\ files_written = <<>>
    /\ export_result = NotCalled
    /\ export_error = NoError
    /\ analyzer_pc = "new"
    /\ analyzer_impl = "unified"
    /\ file_paths = <<>>
    /\ file_idx = 0
    /\ file_results = <<>>
    /\ files_visited = <<>>
    /\ analyzer_raised = FALSE
    /\ combined_summary = NoSummary
    /\ pdf_pc = "idle"
    /\ pdf_args = NoArgs
    /\ pdf_content = <<>>
    /\ pdf_attempts = <<>>
    /\ web_pc = "idle"
    /\ web_args = NoArgs
    /\ web_locals = Unbound
    /\ web_disk = {}
    /\ web_exc = NoError
    /\ web_chosen = 0
    /\ web_response = 0
    /\ web_generators = 0
    /\ web_calls = <<>>
    /\ api_clock = 1
    /\ api_pc = [r \in Requests |-> "idle"]
    /\ api_args = [r \in Requests |-> NoArgs]
    /\ api_session = [r \in Requests |-> NoSession]
    /\ api_disk = {}
    /\ api_written = [r \in Requests |-> {}]

generatorVars == <<llm_provider, llms, fa_clients>>
argVars == <<output_format, num_cases, additional_files>>

\* StoryBDDGenerator(llm_provider=selection, api_keys=...)
Construct(selection, keyed, gemini_ok) ==
    LET built == InitLlms(selection, keyed, gemini_ok)
    IN  /\ pc = "new"
        /\ llm_provider' = selection
        /\ IF built.ok
           THEN /\ llms' = built.llms
                /\ fa_clients' = AnalyzerClients(keyed, gemini_ok)
                /\ pc' = "idle"
                /\ UNCHANGED <<outcome, error>>
           ELSE /\ pc' = "ctor_failed"
                /\ outcome' = "raised"
                /\ error' = built.error
                /\ UNCHANGED <<llms, fa_clients>>
        /\ UNCHANGED <<argVars, additional_context, multi, idx, all_results,
                       response_content, calls, completed, failed, net,
                       inflight, root_result, result>>
        /\ UNCHANGED otherVars

\* generate_test_cases(user_story, fmt, num_cases, files): entry, locals
\* fresh.  num_cases is read by the trim alone, and is drawn there.
Call(fmt, files) ==
    /\ pc = "idle"
    /\ output_format' = fmt
    /\ num_cases' = NoLimit
    /\ additional_files' = files
    /\ additional_context' = ""
    /\ multi' = FALSE
    /\ idx' = 0
    /\ all_results' = <<>>
    /\ response_content' = NoResponse
    /\ calls' = <<>>
    /\ completed' = <<>>
    /\ failed' = <<>>
    /\ net' = <<>>
    /\ inflight' = None
    /\ root_result' = <<>>
    /\ result' = <<>>
    /\ outcome' = "none"
    /\ error' = NoError
    /\ pc' = IF files # <<>> THEN "analyze" ELSE "generate"
    /\ UNCHANGED generatorVars
    /\ UNCHANGED otherVars

\* the enrichment requests analyze_multiple_files issues: one per file whose
\* local extraction succeeded and that the router gives a provider
EnrichRequests(files, extracted, clients) ==
    LET slot(k) == [sent |-> extracted[k]
                             /\ GetProviderForFile(files[k], clients) # "none",
                    req |-> EnrichRequest(GetProviderForFile(files[k], clients))]
        slots == [k \in 1..Len(files) |-> slot(k)]
        Sent(x) == x.sent
        kept == SelectSeq(slots, Sent)
    IN  [k \in 1..Len(kept) |-> kept[k].req]

\* variant: no except clause around the analysis
AnalyzeFilesPropagates(extracted, combined_ok) ==
    /\ pc = "analyze"
    /\ LET reqs == EnrichRequests(additional_files, extracted, fa_clients)
       IN  /\ (reqs = <<>> => combined_ok)
           /\ net' = net \o reqs
    /\ additional_context' =
           IF combined_ok THEN "analysis" ELSE "Note: File analysis failed"
    /\ pc' = IF combined_ok THEN "generate" ELSE "done"
    /\ outcome' = IF combined_ok THEN outcome ELSE "raised"
    /\ error' = IF combined_ok THEN error
                ELSE MakeError("Exception", "analysis_failed", None, None,
                               None)
    /\ UNCHANGED <<generatorVars, argVars, multi, idx, all_results,
                   response_content, calls, completed, failed, inflight,
                   root_result, result>>
    /\ UNCHANGED otherVars

\* the try block around analyze_multiple_files and
\* generate_combined_analysis; combined_ok = FALSE: the block raised
AnalyzeFiles(extracted, combined_ok) ==
    /\ pc = "analyze"
    /\ LET reqs == EnrichRequests(additional_files, extracted, fa_clients)
       IN  /\ (reqs = <<>> => combined_ok)
           /\ net' = net \o reqs
    /\ additional_context' =
           IF combined_ok THEN "analysis" ELSE "Note: File analysis failed"
    /\ pc' = "generate"
    /\ UNCHANGED <<generatorVars, argVars, multi, idx, all_results,
                   response_content, calls, completed, failed, inflight,
                   root_result, result, outcome, error>>
    /\ UNCHANGED otherVars

\* _generate: the branch
Dispatch ==
    /\ pc = "generate"
    /\ multi' = (llm_provider = "all" \/ Len(llms) > 1)
    /\ idx' = 1
    /\ pc' = "engine"
    /\ UNCHANGED <<generatorVars, argVars, additional_context, all_results,
                   response_content, calls, completed, failed, net, inflight,
                   root_result, result, outcome, error>>
    /\ UNCHANGED otherVars

\* the for loop over self.llms.items(): where control goes after the
\* iteration at position i
NextIterationPc(i) == IF i < Len(llms) THEN "engine" ELSE "loop_end"

\* variant: break instead of continue
AfterFailurePcBreak(i) == "loop_end"

\* except Exception as e: print(...); continue
AfterFailurePc(i) == NextIterationPc(i)

\* _generate_with_single_provider(provider_name, ...) raised err: caught by
\* the loop in multi-provider mode, otherwise it reaches the caller
EngineRaised(provider_name, err) ==
    /\ completed' = Append(completed, provider_name)
    /\ failed' = Append(failed, provider_name)
    /\ IF multi
       THEN /\ idx' = idx + 1
            /\ pc' = AfterFailurePc(idx)
            /\ UNCHANGED <<outcome, error>>
       ELSE /\ pc' = "done"
            /\ outcome' = "raised"
            /\ error' = err
            /\ UNCHANGED idx
    /\ UNCHANGED <<all_results, root_result>>

\* _generate_with_single_provider(provider_name, ...) returned items
EngineReturned(provider_name, items) ==
    /\ completed' = Append(completed, provider_name)
    /\ IF multi
       THEN /\ all_results' = Append(all_results,
                                     [provider |-> provider_name,
                                      items |-> items])
            /\ idx' = idx + 1
            /\ pc' = NextIterationPc(idx)
            /\ UNCHANGED root_result
       ELSE /\ root_result' = items
            /\ pc' = "gen_done"
            /\ UNCHANGED <<all_results, idx>>
    /\ UNCHANGED <<failed, outcome, error>>

FormatAccepted(fmt) == IsPlain(fmt) \/ IsBDD(fmt)

\* _generate_with_single_provider up to chain.invoke: the prompt is chosen
\* and the one chat request goes out
EngineStart ==
    /\ pc = "engine"
    /\ FormatAccepted(output_format)
    /\ calls' = Append(calls, llms[idx])
    /\ net' = Append(net, GenerateRequest(llms[idx]))
    /\ inflight' = llms[idx]
    /\ response_content' = NoResponse
    /\ pc' = "await"
    /\ UNCHANGED <<generatorVars, argVars, additional_context, multi, idx,
                   all_results, completed, failed, root_result, result,
                   outcome, error>>
    /\ UNCHANGED otherVars

\* _generate_with_single_provider: the else branch of the format test
EngineInvalidFormat ==
    /\ pc = "engine"
    /\ ~FormatAccepted(output_format)
    /\ calls' = Append(calls, llms[idx])
    /\ EngineRaised(llms[idx], InvalidFormatError)
    /\ UNCHANGED <<generatorVars, argVars, additional_context, multi,
                   response_content, net, inflight, result>>
    /\ UNCHANGED otherVars

\* chain.invoke returned text; the response is parsed
InvokeReturns(text) ==
    /\ pc = "await"
    /\ response_content' = text
    /\ inflight' = None
    /\ LET parsed == ParseResponse(output_format, text)
       IN  IF parsed.ok
           THEN EngineReturned(llms[idx], parsed.items)
           ELSE EngineRaised(llms[idx],
                             GenerationError(output_format, llms[idx],
                                             parsed.detail))
    /\ UNCHANGED <<generatorVars, argVars, additional_context, multi, calls,
                   net, result>>
    /\ UNCHANGED otherVars

\* chain.invoke raised (network, auth, rate limit, quota)
InvokeFails ==
    /\ pc = "await"
    /\ inflight' = None
    /\ EngineRaised(llms[idx],
                    GenerationError(output_format, llms[idx], "invoke"))
    /\ UNCHANGED <<generatorVars, argVars, additional_context, multi, calls,
                   net, response_content, result>>
    /\ UNCHANGED otherVars

\* variant: a single surviving result goes through the merge too
FinishMultipleAlwaysMerge ==
    /\ pc = "loop_end"
    /\ IF all_results = <<>>
       THEN /\ pc' = "done"
            /\ outcome' = "raised"
            /\ error' = AllFailedError
            /\ UNCHANGED root_result
       ELSE /\ root_result' = MergeResults(output_format, all_results)
            /\ pc' = "gen_done"
            /\ UNCHANGED <<outcome, error>>
    /\ response_content' = NoResponse
    /\ UNCHANGED <<generatorVars, argVars, additional_context, multi, idx,
                   all_results, calls, completed, failed, net, inflight,
                   result>>
    /\ UNCHANGED otherVars

\* variant: any provider failure fails the call
FinishMultipleStrict ==
    /\ pc = "loop_end"
    /\ IF all_results = <<>> \/ failed # <<>>
       THEN /\ pc' = "done"
            /\ outcome' = "raised"
            /\ error' = AllFailedError
            /\ UNCHANGED root_result
       ELSE /\ root_result' =
                   IF Len(all_results) = 1 THEN all_results[1].items
                   ELSE MergeResults(output_format, all_results)
            /\ pc' = "gen_done"
            /\ UNCHANGED <<outcome, error>>
    /\ response_content' = NoResponse
    /\ UNCHANGED <<generatorVars, argVars, additional_context, multi, idx,
                   all_results, calls, completed, failed, net, inflight,
                   result>>
    /\ UNCHANGED otherVars

\* _generate_with_multiple_providers after the loop
FinishMultiple ==
    /\ pc = "loop_end"
    /\ IF all_results = <<>>
       THEN /\ pc' = "done"
            /\ outcome' = "raised"
            /\ error' = AllFailedError
            /\ UNCHANGED root_result
       ELSE /\ root_result' =
                   IF Len(all_results) = 1 THEN all_results[1].items
                   ELSE MergeResults(output_format, all_results)
            /\ pc' = "gen_done"
            /\ UNCHANGED <<outcome, error>>
    /\ response_content' = NoResponse
    /\ UNCHANGED <<generatorVars, argVars, additional_context, multi, idx,
                   all_results, calls, completed, failed, net, inflight,
                   result>>
    /\ UNCHANGED otherVars

\* generate_test_cases after _generate returned: trim by num_cases = n and
\* return
ReturnCases(n) ==
    /\ pc = "gen_done"
    /\ num_cases' = n
    /\ result' = TrimResult(root_result, n)
    /\ outcome' = "returned"
    /\ pc' = "done"
    /\ all_results' = <<>>
    /\ response_content' = NoResponse
    /\ UNCHANGED <<generatorVars, output_format, additional_files,
                   additional_context, multi, idx, calls, completed, failed,
                   net, inflight, root_result, error>>
    /\ UNCHANGED otherVars

Next ==
    \/ \E selection \in SampleSelections, keyed \in SUBSET ProviderNames,
          gemini_ok \in BOOLEAN : Construct(selection, keyed, gemini_ok)
    \/ \E fmt \in SampleFormats, files \in SampleFileLists : Call(fmt, files)
    \/ \E extracted \in [1..Len(additional_files) -> BOOLEAN],
          combined_ok \in BOOLEAN : AnalyzeFiles(extracted, combined_ok)
    \/ Dispatch
    \/ EngineStart
    \/ EngineInvalidFormat
    \/ \E text \in ResponsesFor(output_format) : InvokeReturns(text)
    \/ InvokeFails
    \/ FinishMultiple
    \/ \E n \in SampleNumCases : ReturnCases(n)

Spec == Init /\ [][Next]_vars

(***************************************************************************)
(* Properties.                                                             *)
(***************************************************************************)
Returned == pc = "done" /\ outcome = "returned"
Raised == pc = "done" /\ outcome = "raised"

\* C1: generate_test_cases called with num_cases=0 returns an empty list,
\* whatever number of items the provider(s) produced.
C1_ZeroYieldsEmptyList ==
    (Returned /\ num_cases = Limit(0)) => result = <<>>

\* C2: for every num_cases N >= 1 and every parsed or merged list L the
\* call returns exactly the first min(N, |L|) items of L in their order:
\* never more than N items, and all of L when N exceeds |L|.
C2_ReturnsFirstNItems ==
    (Returned /\ num_cases.given /\ num_cases.n >= 1) =>
        /\ Len(result) = Min(num_cases.n, Len(root_result))
        /\ Len(result) <= num_cases.n
        /\ (num_cases.n > Len(root_result) => result = root_result)
        /\ \A k \in 1..Len(result) : result[k] = root_result[k]

\* C2 witness: a merged list of three items was cut to its first two
C2_Witness ==
    /\ Returned /\ multi
    /\ num_cases = Limit(2)
    /\ Len(root_result) = 3
    /\ Len(result) = 2

\* C3: for any output_format that is not exactly "plain" or "bdd" the call
\* fails with the invalid-format error, and no network request (generation
\* or file enrichment) has been issued before that failure.
C3_InvalidFormatFailsBeforeNetwork ==
    (pc = "done" /\ output_format \notin {"plain", "bdd"}) =>
        /\ outcome = "raised"
        /\ error = InvalidFormatError
        /\ net = <<>>

\* the state in which _generate_with_multiple_providers has merged the
\* results of two or more providers
MergeDone == pc = "gen_done" /\ multi /\ Len(all_results) >= 2

\* the items of provider p's successful response, <<>> when p has none
SucceededItems(p) ==
    LET IsP(r) == r.provider = p
        hits == SelectSeq(all_results, IsP)
    IN  IF hits = <<>> THEN <<>> ELSE hits[1].items

ExpectedConcat ==
    SucceededItems("openai") \o SucceededItems("gemini")
        \o SucceededItems("claude")

\* number of items of the first j entries of all_results
RECURSIVE ItemsBefore(_)
ItemsBefore(j) ==
    IF j = 0 THEN 0 ELSE ItemsBefore(j - 1) + Len(all_results[j].items)

InSeq(x, seq) == \E k \in 1..Len(seq) : seq[k] = x

\* C4: when two or more providers succeed, the merged list is the
\* concatenation of their items, providers in the order openai, gemini,
\* claude and each provider's items in their own order; its length is the
\* sum of the providers' list lengths, nothing dropped or deduplicated.
C4_MergeIsConcatenation ==
    MergeDone =>
        /\ Len(root_result) = Len(ExpectedConcat)
        /\ Len(root_result) = ItemsBefore(Len(all_results))
        /\ \A k \in 1..Len(root_result) :
               TextOf(root_result[k]) = TextOf(ExpectedConcat[k])

\* C4 witness: three providers succeeded, two of them with the same two
\* items, and a third with a different one
C4_Witness ==
    /\ MergeDone
    /\ Len(all_results) = 3
    /\ Len(all_results[1].items) = 2
    /\ all_results[1].items = all_results[2].items
    /\ Len(all_results[3].items) = 1
    /\ TextOf(all_results[1].items[1]) # TextOf(all_results[1].items[2])
    /\ Len(root_result) = 5

\* C5: when two or more providers succeed in plain format, the item at
\* position k (1-based) of the merged list has id k, whatever ids the
\* providers returned.
C5_MergedIdsAreSequential ==
    (MergeDone /\ IsPlain(output_format)) =>
        \A k \in 1..Len(root_result) : root_result[k].id = k

\* C5 witness: a plain merge whose providers returned the ids 2,2 and 1
C5_Witness ==
    /\ MergeDone /\ IsPlain(output_format)
    /\ Len(all_results) = 2
    /\ Len(all_results[1].items) = 2
    /\ all_results[1].items[1].id = 2
    /\ all_results[1].items[2].id = 2
    /\ Len(all_results[2].items) = 1
    /\ all_results[2].items[1].id = 1
    /\ root_result[3].id = 3

\* C6: when two or more providers succeed (plain or bdd), every item of the
\* merged list carries the name of the provider whose response contained
\* it; a failed provider's name tags no item.
C6_ItemsTaggedWithTheirProvider ==
    MergeDone =>
        /\ \A j \in 1..Len(all_results) :
               \A i \in 1..Len(all_results[j].items) :
                   root_result[ItemsBefore(j - 1) + i].provider
                       = all_results[j].provider
        /\ \A k \in 1..Len(root_result) :
               /\ ~InSeq(root_result[k].provider, failed)
               /\ InSeq(root_result[k].provider, llms)

\* C6 witness: a bdd merge of openai and claude after gemini failed, where
\* a response item carried a provider value of its own
C6_Witness ==
    /\ MergeDone /\ IsBDD(output_format)
    /\ failed = <<"gemini">>
    /\ Len(all_results) = 2
    /\ Len(all_results[1].items) = 1
    /\ Len(all_results[2].items) = 2
    /\ all_results[2].items[1].provider = "llm"
    /\ root_result[1].provider = "openai"
    /\ root_result[3].provider = "claude"

\* the JSON array a response text carries, bare or under "items"
ResponseArray(text) ==
    IF text.value.t = "array" THEN text.value.v ELSE text.value.v.items.v

\* the item a response object stands for: its own id, text and provider
AsReturned(fmt, obj) ==
    IF IsPlain(fmt)
    THEN [id |-> obj.id, title |-> obj.title,
          provider |-> Get(obj, "provider", None)]
    ELSE [scenario |-> obj.scenario, provider |-> Get(obj, "provider", None)]

\* _generate has returned the result of exactly one provider
SoleSingle == pc = "gen_done" /\ ~multi
SoleSurvivor == pc = "gen_done" /\ multi /\ Len(all_results) = 1

AllProvidersFailed == \A k \in 1..Len(llms) : InSeq(llms[k], failed)

\* C8: in multi-provider mode the generate call fails if and only if every
\* configured provider failed; it then raises the one aggregate error and
\* returns no list, and in every other case it returns a list.
C8_FailsIffAllProvidersFailed ==
    /\ (multi /\ pc = "done") =>
           /\ outcome \in {"raised", "returned"}
           /\ outcome = "raised" <=> AllProvidersFailed
           /\ outcome = "raised" => (error = AllFailedError /\ result = <<>>)
    /\ (multi /\ pc = "gen_done") => ~AllProvidersFailed

\* C8 witness: all three providers of "all" failed and the call raised
C8_Witness ==
    /\ multi /\ Raised
    /\ llms = ProviderOrder
    /\ failed = ProviderOrder
    /\ error = AllFailedError

\* the providers of the generation requests in net, in order
GenerateRequestsOf(requests) ==
    LET IsGen(r) == r.kind = "generate"
        gens == SelectSeq(requests, IsGen)
    IN  [k \in 1..Len(gens) |-> gens[k].provider]

\* C9: in multi-provider mode each configured provider is invoked exactly
\* once per generate call, in configuration order, and a provider's call
\* starts only after the previous one has returned or failed; a failed call
\* is not retried and does not stop the later providers.
C9_SequentialOncePerProvider ==
    multi =>
        /\ Len(calls) <= Len(llms)
        /\ calls = SubSeq(llms, 1, Len(calls))
        /\ LET Configured(p) == InSeq(p, llms)
           IN  llms = SelectSeq(ProviderOrder, Configured)
        /\ pc \in {"loop_end", "gen_done", "done"} => calls = llms
        /\ inflight # None =>
               /\ inflight = calls[Len(calls)]
               /\ completed = SubSeq(calls, 1, Len(calls) - 1)
        /\ inflight = None => completed = calls
        /\ GenerateRequestsOf(net) =
               IF FormatAccepted(output_format) THEN calls ELSE <<>>

\* C9 witness: openai failed, gemini and claude were still invoked, in
\* that order, and both answered
C9_Witness ==
    /\ multi /\ pc = "gen_done"
    /\ failed = <<"openai">>
    /\ calls = ProviderOrder
    /\ completed = ProviderOrder
    /\ GenerateRequestsOf(net) = ProviderOrder
    /\ Len(all_results) = 2

\* the response text is {"items": A} with A an array valid for fmt
IsValidEnvelope(fmt, text) ==
    /\ text # NoResponse
    /\ text.json
    /\ text.value.t = "object"
    /\ Has(text.value.v, "items")
    /\ text.value.v.items.t = "array"
    /\ \A k \in 1..Len(text.value.v.items.v) :
           ItemValid(fmt, text.value.v.items.v[k])

\* what the engine invocation that read response_content returned
LastEngineItems ==
    IF multi THEN all_results[Len(all_results)].items ELSE root_result

LastEngineSucceeded ==
    IF multi
    THEN /\ all_results # <<>>
         /\ all_results[Len(all_results)].provider = completed[Len(completed)]
    ELSE pc = "gen_done"

\* C10: envelope round-trip: for every schema-valid array A, a response
\* {"items": A} is parsed to the result the bare array A is parsed to.
C10_EnvelopeRoundTrip ==
    IsValidEnvelope(output_format, response_content) =>
        LET bare == ParseResponse(output_format,
                                  JsonText(response_content.value.v.items))
        IN  /\ bare.ok
            /\ LastEngineSucceeded
            /\ LastEngineItems = bare.items
            /\ Len(LastEngineItems) = Len(response_content.value.v.items.v)

\* C10 witness: a provider answered {"items": [two valid objects]} and the
\* engine returned two items
C10_Witness ==
    /\ IsValidEnvelope(output_format, response_content)
    /\ Len(response_content.value.v.items.v) = 2
    /\ LastEngineSucceeded
    /\ Len(LastEngineItems) = 2

\* the engine of single-provider mode has failed on a request it had sent
SingleEngineFailed == ~multi /\ failed # <<>> /\ FormatAccepted(output_format)

\* C11: when the strict parse of a response fails and the one repair does
\* not succeed (text that is not JSON, JSON without a top-level "items", or
\* an "items" value that fails the strict parse itself), the failure
\* propagated is the original strict-parse failure of the raw text.
C11_OriginalParseFailurePropagates ==
    (SingleEngineFailed /\ pc = "done" /\ response_content # NoResponse) =>
        /\ error.kind = "generation_failed"
        /\ error.detail = "original"

\* C12: in single-provider mode any failure of the provider call or of the
\* response parsing (after the one repair attempt) ends the generate call:
\* nothing is returned and the caller gets one error that names the
\* provider and the requested format.
C12_SingleFailureIsFatalAndNamed ==
    /\ SingleEngineFailed =>
           /\ pc = "done" /\ outcome = "raised"
           /\ result = <<>>
           /\ error.type = "Exception"
           /\ error.kind = "generation_failed"
           /\ error.provider = llms[1]
           /\ error.provider = llm_provider
           /\ error.format = output_format
           /\ failed = <<llms[1]>>
    /\ (~multi /\ outcome = "returned") => failed = <<>>

\* C12 witness: the anthropic-only generator got a response whose "items"
\* value is no array: the bdd call raised, naming claude and bdd
C12_Witness ==
    /\ SingleEngineFailed /\ Raised
    /\ llms = <<"claude">>
    /\ response_content = JsonText(JObject([items |-> JString("see above")]))
    /\ error = GenerationError("bdd", "claude", "fallback")

\* C15: in every list generate_test_cases returns in plain format the
\* TestCase ids are positive integers and pairwise distinct, in
\* single-provider mode as well as after a multi-provider merge.
C15_ReturnedIdsPositiveAndDistinct ==
    (Returned /\ IsPlain(output_format)) =>
        /\ \A k \in 1..Len(result) : result[k].id >= 1
        /\ \A j, k \in 1..Len(result) :
               j # k => result[j].id # result[k].id

\* the generation requests in net
GenerateRequests ==
    LET IsGen(r) == r.kind = "generate" IN SelectSeq(net, IsGen)

HasContextSection(story) == InSeq(ContextHeader, story)

\* C17: the story text sent to a provider contains the "Additional Context
\* from Files:" section if and only if the combined file context is
\* non-empty; when no files are supplied or discovered the prompt is the
\* user story alone, never an empty context section.
C17_ContextSectionIffContext ==
    \A k \in 1..Len(GenerateRequests) :
        LET story == GenerateRequests[k].story
        IN  /\ HasContextSection(story) <=> additional_context # ""
            /\ HasContextSection(story) <=> additional_files # <<>>
            /\ additional_files = <<>> => story = <<"user story">>
            /\ HasContextSection(story) =>
                   /\ Len(story) = 3
                   /\ story[3] = additional_context
                   /\ story[3] # ""

\* C17 witness: a call with one file whose analysis failed sent the story
\* followed by the section that holds the note
C17_Witness ==
    /\ pc = "await"
    /\ additional_files = <<"doc">>
    /\ Len(GenerateRequests) = 1
    /\ GenerateRequests[1].story =
           <<"user story", ContextHeader, "Note: File analysis failed">>

\* C18: an invalid output format is a global failure: in single-provider
\* mode and in multi-provider ("all") mode alike it reaches the caller as
\* the invalid-format error, and is not absorbed as a provider's failure.
C18_InvalidFormatIsGlobal ==
    (pc = "done" /\ ~FormatAccepted(output_format)) =>
        /\ outcome = "raised"
        /\ error = InvalidFormatError

(***************************************************************************)
(* StoryBDDGenerator.__init__ with its arguments: the api_keys dict and    *)
(* the environment, each giving a provider no value (None), an empty       *)
(* string or a key.                                                        *)
(***************************************************************************)
SampleArgKeys == [ProviderNames -> {None, "", "arg-key"}]
SampleEnvKeys == [ProviderNames -> {None, "", "env-key"}]

\* truth value of an Optional[str]
Truthy(v) == v \notin {None, ""}

\* api_keys.get(p) or os.getenv(VAR[p])
KeyOf(p, api_keys, environ) ==
    IF Truthy(api_keys[p]) THEN api_keys[p] ELSE environ[p]

\* the providers whose `if not key` test passes
Keyed(api_keys, environ) ==
    { p \in ProviderNames : Truthy(KeyOf(p, api_keys, environ)) }

CtorArgs(selection, api_keys, environ, gemini_ok) ==
    [selection |-> selection, api_keys |-> api_keys, environ |-> environ,
     gemini_ok |-> gemini_ok]

\* StoryBDDGenerator(llm_provider=selection, api_keys=api_keys) under
\* os.environ = environ
ConstructWithKeys(selection, api_keys, environ, gemini_ok) ==
    LET keyed == Keyed(api_keys, environ)
        built == InitLlms(selection, keyed, gemini_ok)
    IN  /\ pc = "new"
        /\ ctor_args' = CtorArgs(selection, api_keys, environ, gemini_ok)
        /\ llm_provider' = selection
        /\ IF built.ok
           THEN /\ llms' = built.llms
                /\ client_keys' = [k \in 1..Len(built.llms) |->
                                      KeyOf(built.llms[k], api_keys, environ)]
                /\ fa_clients' = AnalyzerClients(keyed, gemini_ok)
                /\ pc' = "idle"
                /\ UNCHANGED <<outcome, error>>
           ELSE /\ pc' = "ctor_failed"
                /\ outcome' = "raised"
                /\ error' = built.error
                /\ UNCHANGED <<llms, client_keys, fa_clients>>
        /\ UNCHANGED <<argVars, additional_context, multi, idx, all_results,
                       response_content, calls, completed, failed, net,
                       inflight, root_result, result, exportVars,
                       analyzerVars, serviceVars>>

CtorNext ==
    \E selection \in SampleSelections, api_keys \in SampleArgKeys,
       environ \in SampleEnvKeys, gemini_ok \in BOOLEAN :
        ConstructWithKeys(selection, api_keys, environ, gemini_ok)

CtorSpec == Init /\ [][CtorNext]_vars

Constructed == pc \in {"idle", "ctor_failed"} /\ ctor_args # NoArgs

Selected(p) == ctor_args.selection \in {p, "all"}

\* p has a key neither in api_keys nor in the environment
KeyMissing(p) ==
    /\ ~Truthy(ctor_args.api_keys[p])
    /\ ~Truthy(ctor_args.environ[p])

\* the first selected provider, in the order of __init__, without a key
FirstMissing ==
    LET Bad(p) == Selected(p) /\ KeyMissing(p)
        bad == SelectSeq(ProviderOrder, Bad)
    IN  IF bad = <<>> THEN None ELSE bad[1]

\* C13: construction fails with the missing-credential error whenever a
\* selected provider (the named one, each of the three for "all") has a key
\* neither in api_keys nor in its environment variable; one missing key is
\* enough in "all" mode and no partially configured generator results; a
\* key given in api_keys takes precedence over the environment.
C13_MissingCredentialFails ==
    Constructed =>
        /\ FirstMissing # None =>
               /\ pc = "ctor_failed" /\ outcome = "raised"
               /\ error = MissingKeyError(FirstMissing)
               /\ llms = <<>> /\ client_keys = <<>>
        /\ error.kind = "missing_credential" => FirstMissing # None
        /\ pc = "idle" =>
               /\ Len(client_keys) = Len(llms)
               /\ \A k \in 1..Len(llms) :
                      LET given == ctor_args.api_keys[llms[k]]
                      IN  /\ Truthy(client_keys[k])
                          /\ Truthy(given) => client_keys[k] = given
                          /\ ~Truthy(given) =>
                                 client_keys[k] = ctor_args.environ[llms[k]]

\* C13 witness: "all" with the keys of openai and gemini present and the
\* one of claude in neither place: construction failed on claude
C13_Witness ==
    /\ Constructed /\ pc = "ctor_failed"
    /\ ctor_args.selection = "all"
    /\ ~KeyMissing("openai") /\ ~KeyMissing("gemini") /\ KeyMissing("claude")
    /\ error = MissingKeyError("claude")

\* C14: construction fails with the unsupported-provider error, whose
\* message mentions the given name, exactly when the provider name is not
\* one of openai, gemini, claude or all.
C14_UnsupportedIffUnknownName ==
    Constructed =>
        /\ error.kind = "unsupported_provider" <=>
               ctor_args.selection \notin (ProviderNames \cup {"all"})
        /\ error.kind = "unsupported_provider" =>
               error.detail = ctor_args.selection

(***************************************************************************)
(* export_to_markdown on a single-provider generator, called without       *)
(* files.  Each of its two generate_test_cases calls is one step: the      *)
(* provider's reply decides what the call returns or raises.               *)
(***************************************************************************)
InvokeFailure == [failed |-> TRUE]

\* what the provider does with the one request of a call
RepliesFor(fmt) == {InvokeFailure} \cup ResponsesFor(fmt)

\* generate_test_cases(story, fmt, num_cases = n) on the generator whose
\* only client is provider, the provider answering reply
GenerateTestCases(fmt, provider, reply, n) ==
    IF reply = InvokeFailure
    THEN [ok |-> FALSE, error |-> GenerationError(fmt, provider, "invoke")]
    ELSE LET parsed == ParseResponse(fmt, reply)
         IN  IF parsed.ok
             THEN [ok |-> TRUE, cases |-> TrimResult(parsed.items, n)]
             ELSE [ok |-> FALSE,
                   error |-> GenerationError(fmt, provider, parsed.detail)]

CallReturned(cases) == [called |-> TRUE, cases |-> cases]

\* os.path.join(output_dir, f"{filename_prefix}_{fmt}_{timestamp}.md")
FilePath(fmt) == [dir |-> "output_dir", name |-> <<"test_cases", fmt, "ts">>]

\* any('provider' in case for case in cases): every dict of case.dict()
\* has the key
HasProviderInfo(cases) == \E k \in 1..Len(cases) : Has(cases[k], "provider")

\* _format_plain_tests_to_markdown
FormatPlainTestsToMarkdown(test_cases, provider_text) ==
    [heading |-> "# Test Cases - Plain English Format",
     multi_provider |-> HasProviderInfo(test_cases),
     providers |-> provider_text,
     sections |-> [k \in 1..Len(test_cases) |->
                      [number |-> Get(test_cases[k], "id", k),
                       title |-> Get(test_cases[k], "title", "Untitled"),
                       generated_by |->
                           Get(test_cases[k], "provider", "Unknown")]]]

\* _format_bdd_tests_to_markdown
FormatBddTestsToMarkdown(bdd_scenarios, provider_text) ==
    [heading |-> "# BDD Test Scenarios - Gherkin Format",
     multi_provider |-> HasProviderInfo(bdd_scenarios),
     providers |-> provider_text,
     sections |-> [k \in 1..Len(bdd_scenarios) |->
                      [number |-> k,
                       title |-> Get(bdd_scenarios[k], "scenario",
                                     "Untitled Scenario"),
                       generated_by |->
                           Get(bdd_scenarios[k], "provider", "Unknown")]]]

FileOf(path, content) == [path |-> path, content |-> content]
OSError(what) == MakeError("OSError", "io_failed", None, None, what)

ioVarsOfExport == <<output_dir, files_written>>

\* export_to_markdown(story, output_dir, prefix, num_cases = n): entry
ExportBegin(n, dir_there) ==
    /\ pc = "idle" /\ export_pc = "idle"
    /\ Len(llms) = 1
    /\ num_cases' = n
    /\ output_dir' = IF dir_there THEN "present" ELSE "absent"
    /\ export_pc' = "plain_call"
    /\ UNCHANGED <<pc, generatorVars, output_format, additional_files,
                   additional_context, multi, idx, all_results,
                   response_content, calls, completed, failed, net, inflight,
                   root_result, result, outcome, error, ctorVars,
                   generate_calls, plain_tests, bdd_tests, files_written,
                   export_result, export_error, analyzerVars,
                   serviceVars>>

exportFrame == <<pc, generatorVars, argVars, additional_context, multi, idx,
                 all_results, response_content, calls, completed, failed,
                 net, inflight, root_result, result, outcome, error,
                 ctorVars, analyzerVars, serviceVars>>

\* variant: the plain file is written as soon as the plain cases are there
ExportGeneratePlainWritesFirst(reply) ==
    LET got == GenerateTestCases("plain", llms[1], reply, num_cases)
    IN  /\ export_pc = "plain_call"
        /\ generate_calls' = Append(generate_calls, "plain")
        /\ IF got.ok
           THEN /\ plain_tests' = CallReturned(got.cases)
                /\ files_written' =
                       Append(files_written,
                              FileOf(FilePath("plain"),
                                     FormatPlainTestsToMarkdown(
                                         got.cases, llm_provider)))
                /\ export_pc' = "bdd_call"
                /\ UNCHANGED export_error
           ELSE /\ export_pc' = "done"
                /\ export_error' = got.error
                /\ UNCHANGED <<plain_tests, files_written>>
        /\ UNCHANGED <<exportFrame, bdd_tests, output_dir, export_result>>

\* plain_tests = self.generate_test_cases(story, output_format="plain", ...)
ExportGeneratePlain(reply) ==
    LET got == GenerateTestCases("plain", llms[1], reply, num_cases)
    IN  /\ export_pc = "plain_call"
        /\ generate_calls' = Append(generate_calls, "plain")
        /\ IF got.ok
           THEN /\ plain_tests' = CallReturned(got.cases)
                /\ export_pc' = "bdd_call"
                /\ UNCHANGED export_error
           ELSE /\ export_pc' = "done"
                /\ export_error' = got.error
                /\ UNCHANGED plain_tests
        /\ UNCHANGED <<exportFrame, bdd_tests, ioVarsOfExport, export_result>>

\* bdd_tests = self.generate_test_cases(story, output_format="bdd", ...)
ExportGenerateBdd(reply) ==
    LET got == GenerateTestCases("bdd", llms[1], reply, num_cases)
    IN  /\ export_pc = "bdd_call"
        /\ generate_calls' = Append(generate_calls, "bdd")
        /\ IF got.ok
           THEN /\ bdd_tests' = CallReturned(got.cases)
                /\ export_pc' = "makedirs"
                /\ UNCHANGED export_error
           ELSE /\ export_pc' = "done"
                /\ export_error' = got.error
                /\ UNCHANGED bdd_tests
        /\ UNCHANGED <<exportFrame, plain_tests, ioVarsOfExport,
                       export_result>>

\* os.makedirs(output_dir, exist_ok=True)
ExportMakedirs(io_ok) ==
    /\ export_pc = "makedirs"
    /\ IF output_dir # "absent"
       THEN /\ export_pc' = "write_plain"
            /\ UNCHANGED <<output_dir, export_error>>
       ELSE IF io_ok
       THEN /\ output_dir' = "created"
            /\ export_pc' = "write_plain"
            /\ UNCHANGED export_error
       ELSE /\ export_pc' = "done"
            /\ export_error' = OSError("makedirs")
            /\ UNCHANGED output_dir
    /\ UNCHANGED <<exportFrame, generate_calls, plain_tests, bdd_tests,
                   files_written, export_result>>

\* with open(plain_filepath, 'w') as f: f.write(plain_md)
ExportWritePlain(io_ok) ==
    /\ export_pc = "write_plain"
    /\ IF io_ok
       THEN /\ files_written' =
                   Append(files_written,
                          FileOf(FilePath("plain"),
                                 FormatPlainTestsToMarkdown(
                                     plain_tests.cases, llm_provider)))
            /\ export_pc' = "write_bdd"
            /\ UNCHANGED export_error
       ELSE /\ export_pc' = "done"
            /\ export_error' = OSError("open plain")
            /\ UNCHANGED files_written
    /\ UNCHANGED <<exportFrame, generate_calls, plain_tests, bdd_tests,
                   output_dir, export_result>>

\* with open(bdd_filepath, 'w') as f: f.write(bdd_md); return {...}
ExportWriteBdd(io_ok) ==
    /\ export_pc = "write_bdd"
    /\ export_pc' = "done"
    /\ IF io_ok
       THEN /\ files_written' =
                   Append(files_written,
                          FileOf(FilePath("bdd"),
                                 FormatBddTestsToMarkdown(
                                     bdd_tests.cases, llm_provider)))
            /\ export_result' = [plain_english |-> FilePath("plain"),
                                 bdd |-> FilePath("bdd")]
            /\ UNCHANGED export_error
       ELSE /\ export_error' = OSError("open bdd")
            /\ UNCHANGED <<files_written, export_result>>
    /\ UNCHANGED <<exportFrame, generate_calls, plain_tests, bdd_tests,
                   output_dir>>

ExportNext ==
    \/ \E p \in ProviderNames : Construct(p, {p}, TRUE)
    \/ \E n \in SampleNumCases, dir_there \in BOOLEAN : ExportBegin(n, dir_there)
    \/ \E reply \in RepliesFor("plain") : ExportGeneratePlain(reply)
    \/ \E reply \in RepliesFor("bdd") : ExportGenerateBdd(reply)
    \/ \E io_ok \in BOOLEAN : ExportMakedirs(io_ok)
    \/ \E io_ok \in BOOLEAN : ExportWritePlain(io_ok)
    \/ \E io_ok \in BOOLEAN : ExportWriteBdd(io_ok)

ExportSpec == Init /\ [][ExportNext]_vars

IsPrefixOf(a, b) == Len(a) <= Len(b) /\ a = SubSeq(b, 1, Len(a))

BothCallsSucceeded ==
    /\ generate_calls = <<"plain", "bdd">>
    /\ plain_tests # NotCalled
    /\ bdd_tests # NotCalled

ExportReturned == export_pc = "done" /\ export_result # NotCalled
ExportRaised == export_pc = "done" /\ export_error # NoError

\* C16: export_to_markdown calls generate_test_cases for plain and then
\* for bdd, never more than once each, and touches the disk (creating the
\* output directory if absent, writing the two markdown files) only after
\* both calls have succeeded; if either call fails its error propagates and
\* no file is written; when it returns, both calls were made and the pair
\* returned holds the paths of the two files written.
C16_ExportWritesAfterBothCalls ==
    /\ IsPrefixOf(generate_calls, <<"plain", "bdd">>)
    /\ (files_written # <<>> \/ output_dir = "created") => BothCallsSucceeded
    /\ export_error.kind = "generation_failed" =>
           /\ ExportRaised /\ export_result = NotCalled
           /\ files_written = <<>> /\ output_dir # "created"
           /\ export_error.format = generate_calls[Len(generate_calls)]
           /\ export_error.provider = llms[1]
           /\ (plain_tests = NotCalled) = (generate_calls = <<"plain">>)
           /\ bdd_tests = NotCalled
    /\ export_pc = "done" => (ExportReturned = ~ExportRaised)
    /\ ExportReturned =>
           /\ BothCallsSucceeded
           /\ output_dir \in {"present", "created"}
           /\ Len(files_written) = 2
           /\ files_written[1].path = export_result.plain_english
           /\ files_written[2].path = export_result.bdd
           /\ export_result.plain_english # export_result.bdd
           /\ files_written[1].content =
                  FormatPlainTestsToMarkdown(plain_tests.cases, llm_provider)
           /\ files_written[2].content =
                  FormatBddTestsToMarkdown(bdd_tests.cases, llm_provider)

\* C16 witness: an export into a directory that did not exist returned,
\* with two plain cases and one scenario in the two files
C16_Witness ==
    /\ ExportReturned
    /\ output_dir = "created"
    /\ Len(plain_tests.cases) = 2
    /\ Len(bdd_tests.cases) = 1
    /\ Len(files_written) = 2
    /\ Len(files_written[1].content.sections) = 2

(***************************************************************************)
(* File analysis: analyze_file and analyze_multiple_files of               *)
(* UnifiedFileAnalyzer ("unified") and of the older FileAnalyzer           *)
(* ("legacy").  A path is its position in the list, the kind its suffix    *)
(* gives it and what is wrong with the file behind it.                     *)
(***************************************************************************)
MaxFiles == 2       \* longest file_paths list

PathOf(kind, fault) == [kind |-> kind, fault |-> fault]

\* faults: "missing" (exists() is false), "vanished" (gone after exists():
\* stat and open raise), "unreadable" (open raises), "empty" (zero bytes),
\* "corrupt" (the content does not parse), "not_a_path" (no str or Path)
SamplePaths ==
    { PathOf("doc", f) : f \in {"none", "missing", "unreadable", "empty",
                                "not_a_path"} }
    \cup { PathOf("json", f) : f \in {"none", "vanished", "unreadable",
                                      "empty"} }
    \cup { PathOf("img", f) : f \in {"none", "corrupt"} }
    \cup { PathOf("video", f) : f \in {"none"} }

SamplePathLists == SeqsUpTo(SamplePaths, MaxFiles)

\* text with an optional exception message embedded in it
Text(body, detail) == [body |-> body, detail |-> detail]
EmptyText == Text("", None)

\* the exception the file raises when it is stat'ed, opened or parsed
StatError(fault) == IF fault = "vanished" THEN "FileNotFoundError" ELSE None
OpenError(fault) ==
    CASE fault = "vanished" -> "FileNotFoundError"
      [] fault = "unreadable" -> "PermissionError"
      [] OTHER -> None
ParseError(kind, fault) ==
    CASE kind = "json" /\ fault \in {"empty", "corrupt"} -> "JSONDecodeError"
      [] kind = "img" /\ fault \in {"empty", "corrupt"} ->
             "UnidentifiedImageError"
      [] kind = "doc" /\ fault = "corrupt" -> "UnicodeDecodeError"
      [] OTHER -> None

ExtractRaised(message) == [raised |-> TRUE, message |-> message]
Extracted(file_type, content) ==
    [raised |-> FALSE, file_type |-> file_type, content |-> content]

FileContent(fault) == IF fault = "empty" THEN EmptyText ELSE Text("content", None)

\* UnifiedFileAnalyzer._extract_content_and_metadata and the extractor it
\* routes to (PIL and pytesseract installed)
ExtractContentAndMetadata(path) ==
    LET kind == path.kind
        fault == path.fault
    IN  CASE kind = "doc" ->
                 \* open() is guarded against UnicodeDecodeError alone
                 IF OpenError(fault) # None
                 THEN ExtractRaised(OpenError(fault))
                 ELSE Extracted("text", FileContent(fault))
          [] kind = "json" ->
                 IF StatError(fault) # None
                 THEN ExtractRaised(StatError(fault))
                 ELSE IF OpenError(fault) # None
                 THEN Extracted("json", Text("JSON parsing failed",
                                             OpenError(fault)))
                 ELSE IF ParseError(kind, fault) # None
                 THEN Extracted("json", Text("JSON parsing failed",
                                             ParseError(kind, fault)))
                 ELSE Extracted("json", FileContent(fault))
          [] kind = "img" ->
                 IF StatError(fault) # None
                 THEN ExtractRaised(StatError(fault))
                 ELSE IF OpenError(fault) # None
                 THEN Extracted("image", Text("Image processing failed",
                                              OpenError(fault)))
                 ELSE IF ParseError(kind, fault) # None
                 THEN Extracted("image", Text("Image processing failed",
                                              ParseError(kind, fault)))
                 ELSE Extracted("image", Text("OCR extracted text", None))
          [] OTHER ->
                 IF StatError(fault) # None
                 THEN ExtractRaised(StatError(fault))
                 ELSE Extracted("video", Text("Video file", None))

\* FileAnalysisResult._generate_summary
GenerateSummary(file_type, content) ==
    IF content.body = "" THEN Text("No content extracted from file.", None)
    ELSE Text(file_type, content.detail)

AnalyzeRaised(message) == [raised |-> TRUE, message |-> message]
Analyzed(res, requests) ==
    [raised |-> FALSE, result |-> res, requests |-> requests]

ErrorResult(name, message, analysis) ==
    [file_path |-> name, file_type |-> "error", error |-> message,
     content |-> EmptyText, analysis |-> analysis]

\* UnifiedFileAnalyzer.analyze_file(path); name stands for str(file_path),
\* enhance_ok: whether llm.invoke answers
AnalyzeFile(name, path, clients, enhance_ok) ==
    IF path.fault = "not_a_path" THEN AnalyzeRaised("TypeError")
    ELSE IF path.fault = "missing"
    THEN Analyzed(ErrorResult(name, "File not found",
                              Text("File not found", None)), <<>>)
    ELSE LET base_result == ExtractContentAndMetadata(path)
             provider == GetProviderForFile(path.kind, clients)
             summary == GenerateSummary(base_result.file_type,
                                        base_result.content)
             enhanced_analysis ==
                 IF provider # "none" /\ enhance_ok
                 THEN Text("llm analysis", None) ELSE summary
         IN  IF base_result.raised
             THEN Analyzed(ErrorResult(name, base_result.message,
                                       Text("Failed to extract content",
                                            base_result.message)), <<>>)
             ELSE Analyzed([file_path |-> name,
                            file_type |-> base_result.file_type,
                            content |-> base_result.content,
                            analysis |-> enhanced_analysis,
                            provider |-> provider,
                            enhanced_analysis |-> enhanced_analysis],
                           IF provider # "none"
                           THEN <<EnrichRequest(provider)>> ELSE <<>>)

\* FileAnalysisResult(file_path, file_type, content, metadata)
FileAnalysisResult(name, file_type, content) ==
    [file_path |-> name, file_type |-> file_type, content |-> content,
     summary |-> GenerateSummary(file_type, content)]

\* FileAnalyzer.analyze_file(path): the text and json extractors guard
\* everything, the others stat the file first
LegacyAnalyzeFile(name, path) ==
    LET kind == path.kind
        fault == path.fault
        broken == IF OpenError(fault) # None THEN OpenError(fault)
                  ELSE ParseError(kind, fault)
    IN  IF fault = "not_a_path" THEN AnalyzeRaised("TypeError")
        ELSE IF fault = "missing" THEN AnalyzeRaised("FileNotFoundError")
        ELSE IF kind \in {"doc", "json"}
        THEN Analyzed(FileAnalysisResult(
                          name, IF kind = "doc" THEN "text" ELSE "json",
                          IF broken # None
                          THEN Text("Error reading file", broken)
                          ELSE FileContent(fault)), <<>>)
        ELSE IF StatError(fault) # None THEN AnalyzeRaised(StatError(fault))
        ELSE Analyzed(FileAnalysisResult(
                          name, IF kind = "img" THEN "image" ELSE "video",
                          IF broken # None
                          THEN Text("no text content extracted", None)
                          ELSE Text("content", None)), <<>>)

\* variant: the failure of one file ends the batch
OnAnalyzeFileErrorRaise(impl, results, name, message) ==
    [raised |-> TRUE, results |-> results]

\* the except branch of analyze_multiple_files: the unified analyzer prints
\* a warning and drops the file, the legacy one records an error result
OnAnalyzeFileError(impl, results, name, message) ==
    [raised |-> FALSE,
     results |-> IF impl = "unified" THEN results
                 ELSE Append(results,
                             FileAnalysisResult(
                                 name, "error",
                                 Text("Error analyzing file", message)))]

\* result.get('provider', 'local') for each result
ProvidersUsed(results) ==
    [k \in 1..Len(results) |->
        IF Has(results[k], "provider") THEN results[k].provider ELSE "local"]

\* seq.count(x)
CountOf(seq, x) == Cardinality({k \in 1..Len(seq) : seq[k] = x})

\* {p: providers_used.count(p) for p in set(providers_used)}
ProviderCounts(results) ==
    LET used == ProvidersUsed(results)
    IN  [p \in {used[k] : k \in 1..Len(used)} |-> CountOf(used, p)]

\* UnifiedFileAnalyzer.generate_combined_analysis(results): the entries
\* of the summary text
GenerateCombinedAnalysis(results) ==
    IF results = <<>>
    THEN [called |-> TRUE, empty |-> TRUE]
    ELSE [called |-> TRUE, empty |-> FALSE,
          sections |-> [k \in 1..Len(results) |->
                           [file_path |-> results[k].file_path,
                            provider |-> ProvidersUsed(results)[k],
                            analysis |-> results[k].analysis]],
          total |-> Len(results),
          file_types |-> {results[k].file_type : k \in 1..Len(results)},
          provider_counts |-> ProviderCounts(results)]

analyzerFrame == <<pc, llm_provider, llms, argVars, additional_context,
                   multi, idx, all_results, response_content, calls,
                   completed, failed, inflight, root_result, result, outcome,
                   error, ctorVars, exportVars, serviceVars>>

\* UnifiedFileAnalyzer(keys...) / FileAnalyzer()
AnalyzerConstruct(impl, keyed, gemini_ok) ==
    /\ analyzer_pc = "new"
    /\ analyzer_impl' = impl
    /\ fa_clients' = IF impl = "unified"
                     THEN AnalyzerClients(keyed, gemini_ok) ELSE {}
    /\ analyzer_pc' = "idle"
    /\ UNCHANGED <<analyzerFrame, net, file_paths, file_idx, file_results,
                   files_visited, analyzer_raised, combined_summary>>

\* analyze_multiple_files(paths): entry
AnalyzeMultipleFiles(paths) ==
    /\ analyzer_pc = "idle"
    /\ file_paths' = paths
    /\ file_idx' = 1
    /\ file_results' = <<>>
    /\ files_visited' = <<>>
    /\ analyzer_raised' = FALSE
    /\ analyzer_pc' = "loop"
    /\ UNCHANGED <<analyzerFrame, net, fa_clients, analyzer_impl,
                   combined_summary>>

\* one iteration of the loop: analyze_file(file_paths[file_idx]) inside
\* try/except
AnalyzeNextFile(enhance_ok) ==
    /\ analyzer_pc = "loop"
    /\ file_idx <= Len(file_paths)
    /\ LET path == file_paths[file_idx]
           got == IF analyzer_impl = "unified"
                  THEN AnalyzeFile(file_idx, path, fa_clients, enhance_ok)
                  ELSE LegacyAnalyzeFile(file_idx, path)
           handled == OnAnalyzeFileError(analyzer_impl, file_results,
                                         file_idx, got.message)
       IN  /\ files_visited' = Append(files_visited, file_idx)
           /\ IF ~got.raised
              THEN /\ file_results' = Append(file_results, got.result)
                   /\ net' = net \o got.requests
                   /\ file_idx' = file_idx + 1
                   /\ UNCHANGED <<analyzer_pc, analyzer_raised>>
              ELSE IF ~handled.raised
              THEN /\ file_results' = handled.results
                   /\ file_idx' = file_idx + 1
                   /\ UNCHANGED <<analyzer_pc, analyzer_raised, net>>
              ELSE /\ analyzer_raised' = TRUE
                   /\ analyzer_pc' = "done"
                   /\ UNCHANGED <<file_results, file_idx, net>>
    /\ UNCHANGED <<analyzerFrame, fa_clients, analyzer_impl, file_paths,
                   combined_summary>>

\* return results
AnalyzeMultipleReturn ==
    /\ analyzer_pc = "loop"
    /\ file_idx > Len(file_paths)
    /\ analyzer_pc' = "done"
    /\ UNCHANGED <<analyzerFrame, net, fa_clients, analyzer_impl, file_paths,
                   file_idx, file_results, files_visited, analyzer_raised,
                   combined_summary>>

\* additional_context = generate_combined_analysis(file_results), as the
\* generator calls it on what analyze_multiple_files returned
CombineAnalysis ==
    /\ analyzer_pc = "done"
    /\ analyzer_impl = "unified"
    /\ ~analyzer_raised
    /\ combined_summary' = GenerateCombinedAnalysis(file_results)
    /\ analyzer_pc' = "combined"
    /\ UNCHANGED <<analyzerFrame, net, fa_clients, analyzer_impl, file_paths,
                   file_idx, file_results, files_visited, analyzer_raised>>

AnalyzerNext ==
    \/ \E impl \in {"unified", "legacy"}, keyed \in SUBSET ProviderNames,
          gemini_ok \in BOOLEAN : AnalyzerConstruct(impl, keyed, gemini_ok)
    \/ \E paths \in SamplePathLists : AnalyzeMultipleFiles(paths)
    \/ \E enhance_ok \in BOOLEAN : AnalyzeNextFile(enhance_ok)
    \/ AnalyzeMultipleReturn
    \/ CombineAnalysis

AnalyzerSpec == Init /\ [][AnalyzerNext]_vars

AnalyzerDone == analyzer_pc = "done"

\* the positions of file_paths whose analyze_file call raised
RaisedAt(k) ==
    IF analyzer_impl = "unified"
    THEN AnalyzeFile(k, file_paths[k], fa_clients, TRUE).raised
    ELSE LegacyAnalyzeFile(k, file_paths[k]).raised

StrictlyIncreasing(seq) ==
    \A j, k \in 1..Len(seq) : j < k => seq[j] < seq[k]

ResultPaths == [k \in 1..Len(file_results) |-> file_results[k].file_path]

\* C19: analyze_multiple_files never raises: a failure on one path does not
\* stop the analysis of the later paths, and the results returned are in
\* input-path order with at most one result per path.
C19_BatchNeverAborts ==
    /\ ~analyzer_raised
    /\ StrictlyIncreasing(ResultPaths)
    /\ \A k \in 1..Len(ResultPaths) : ResultPaths[k] \in 1..Len(files_visited)
    /\ analyzer_pc \in {"loop", "done"} =>
           files_visited = [k \in 1..(file_idx - 1) |-> k]
    /\ AnalyzerDone =>
           /\ files_visited = [k \in 1..Len(file_paths) |-> k]
           /\ \A k \in 1..Len(file_paths) :
                  ~RaisedAt(k) => InSeq(k, ResultPaths)
           /\ analyzer_impl = "legacy" => Len(file_results) = Len(file_paths)
           /\ analyzer_impl = "unified" =>
                  \A k \in 1..Len(file_paths) :
                      RaisedAt(k) => ~InSeq(k, ResultPaths)

\* C19 witness: the first of two paths made analyze_file raise and the
\* second was analyzed all the same
C19_Witness ==
    /\ AnalyzerDone
    /\ analyzer_impl = "unified"
    /\ Len(file_paths) = 2
    /\ RaisedAt(1) /\ ~RaisedAt(2)
    /\ ResultPaths = <<2>>
    /\ files_visited = <<1, 2>>

\* the exception that extracting the content of path raises, None if none:
\* the file is missing, cannot be stat'ed, opened or parsed
ExtractionException(path) ==
    IF path.fault = "missing" THEN "File not found"
    ELSE IF path.kind # "doc" /\ StatError(path.fault) # None
    THEN StatError(path.fault)
    ELSE IF path.kind # "video" /\ OpenError(path.fault) # None
    THEN OpenError(path.fault)
    ELSE IF path.kind \in {"json", "img"}
    THEN ParseError(path.kind, path.fault)
    ELSE None

\* C20: any exception raised while extracting one file's content (missing
\* file, unreadable or zero-byte file, parser failure) yields a result for
\* that file with file_type "error" that carries the exception message, and
\* the exception does not leave analyze_file or analyze_multiple_files.
C20_ExtractionFailureIsErrorResult ==
    (AnalyzerDone /\ analyzer_impl = "unified") =>
        /\ ~analyzer_raised
        /\ \A k \in 1..Len(file_paths) :
               (file_paths[k].fault # "not_a_path"
                /\ ExtractionException(file_paths[k]) # None) =>
                   \E j \in 1..Len(file_results) :
                       /\ file_results[j].file_path = k
                       /\ file_results[j].file_type = "error"
                       /\ file_results[j].error =
                              ExtractionException(file_paths[k])

\* the results of the unified analyzer that went through the router
Routed(k) == analyzer_impl = "unified" /\ Has(file_results[k], "provider")
KindAt(k) == file_paths[file_results[k].file_path].kind
IsVisual(kind) == kind \in {"img", "video"}

\* C22: the router is a static priority table over the configured clients:
\* for an image or video it returns gemini if configured, else openai if
\* configured; for any other extension openai, else claude, else gemini;
\* the "none" sentinel only if no client is configured; always one name
\* that is a configured client or the sentinel.
C22_RouterPriorityTable ==
    \A k \in 1..Len(file_results) :
        Routed(k) =>
            LET chosen == file_results[k].provider
                c == fa_clients
            IN  /\ chosen \in c \cup {"none"}
                /\ chosen = "none" <=> c = {}
                /\ IsVisual(KindAt(k)) =>
                       /\ "gemini" \in c => chosen = "gemini"
                       /\ ("gemini" \notin c /\ "openai" \in c) =>
                              chosen = "openai"
                /\ ~IsVisual(KindAt(k)) =>
                       /\ "openai" \in c => chosen = "openai"
                       /\ ("openai" \notin c /\ "claude" \in c) =>
                              chosen = "claude"
                       /\ ("openai" \notin c /\ "claude" \notin c
                           /\ "gemini" \in c) => chosen = "gemini"

\* C22 witness: with all three clients configured an image went to gemini
\* and a json file of the same batch to openai
C22_Witness ==
    /\ analyzer_pc = "done" /\ analyzer_impl = "unified"
    /\ fa_clients = ProviderNames
    /\ Len(file_results) = 2
    /\ KindAt(1) = "img" /\ file_results[1].provider = "gemini"
    /\ KindAt(2) = "json" /\ file_results[2].provider = "openai"

\* C29: for every set of configured clients the visual_analysis_provider
\* of get_status_report is the provider the router returns for an image or
\* video file.
C29_StatusReportAgreesWithRouter ==
    analyzer_pc # "new" =>
        \A kind \in {"img", "video"} :
            GetStatusReport(fa_clients).visual_analysis_provider
                = GetProviderForFile(kind, fa_clients)

\* the generator exists: __init__ returned
Built == Constructed /\ pc = "idle"

\* C26: every successfully constructed generator holds at least one
\* provider client, also when the Gemini client constructor throws: exactly
\* the selected one in single-provider mode and at least two in "all"
\* mode, so the first key of the client map, which _generate reads, exists.
C26_BuiltGeneratorHasClient ==
    Built =>
        /\ Len(llms) >= 1
        /\ llms[1] \in ProviderNames
        /\ ctor_args.selection # "all" => llms = <<ctor_args.selection>>
        /\ ctor_args.selection = "all" => Len(llms) >= 2

\* C26 witness: "all" was built although the Gemini constructor threw, and
\* the generator holds the two other clients
C26_Witness ==
    /\ Built /\ ctor_args.selection = "all" /\ ~ctor_args.gemini_ok
    /\ llms = <<"openai", "claude">>

AnalysisFailed == additional_context = "Note: File analysis failed"

\* C30: a failure of the file analysis as a whole never makes
\* generate_test_cases fail: the generation requests are still issued, with
\* the note about the failure as the additional context, and the call fails
\* exactly when the provider calls make it fail.
C30_AnalysisFailureIsNotFatal ==
    AnalysisFailed =>
        /\ pc \in {"generate", "engine", "await", "loop_end", "gen_done",
                   "done"}
        /\ \A k \in 1..Len(GenerateRequests) :
               GenerateRequests[k].story =
                   <<"user story", ContextHeader, "Note: File analysis failed">>
        /\ pc = "done" =>
               /\ calls # <<>> /\ completed = calls
               /\ GenerateRequestsOf(net) =
                      IF FormatAccepted(output_format) THEN calls ELSE <<>>
               /\ outcome \in {"raised", "returned"}
               /\ outcome = "raised" <=>
                      IF multi THEN AllProvidersFailed ELSE failed # <<>>
               /\ outcome = "raised" =>
                      error.kind \in {"invalid_format", "generation_failed",
                                      "all_failed"}

\* C30 witness: the analysis of the one file failed after its enrichment
\* request, the generation request carried the note, the provider answered
\* and the call returned cases
C30_Witness ==
    /\ AnalysisFailed /\ Returned /\ ~multi
    /\ additional_files = <<"doc">>
    /\ Len(net) = 2 /\ net[1].kind # "generate" /\ net[2].kind = "generate"
    /\ result # <<>>

\* generate_combined_analysis returned the summary of at least one result
Combined == analyzer_pc = "combined" /\ ~combined_summary.empty

\* the enrichment call for the result was made and answered
Enriched(res) == Has(res, "provider") /\ res.analysis.body = "llm analysis"

\* the tally's count for a label
Tally(label) ==
    IF label \in DOMAIN combined_summary.provider_counts
    THEN combined_summary.provider_counts[label] ELSE 0

\* C24: in the combined analysis the per-provider tally counts every
\* analysed file exactly once: under the provider that performed its
\* enrichment, or under "none" or "local" when no LLM narrative was
\* produced for it (no client configured, or the enrichment call failed);
\* the counts sum to the number of files analysed.
C24_TallyCountsEnrichingProvider ==
    Combined =>
        /\ \A p \in ProviderNames :
               Tally(p) = Cardinality({k \in 1..Len(file_results) :
                                          /\ Enriched(file_results[k])
                                          /\ file_results[k].provider = p})
        /\ Tally("none") + Tally("local") =
               Cardinality({k \in 1..Len(file_results) :
                               ~Enriched(file_results[k])})
        /\ DOMAIN combined_summary.provider_counts
               \subseteq ProviderNames \cup {"none", "local"}
        /\ Tally("openai") + Tally("gemini") + Tally("claude")
           + Tally("none") + Tally("local") = combined_summary.total
        /\ combined_summary.total = Len(file_results)

(***************************************************************************)
(* _analyze_pdf_file of the unified and of the legacy analyzer.  A text is *)
(* a sequence of tokens: "t" for the text of a page, NL for a line break,  *)
(* or one token that stands for a fixed message.  A backend either raises  *)
(* or gives the text of each page, "" for a page without a text layer.     *)
(***************************************************************************)
MaxPages == 2       \* most pages a PDF has

NL == "\n"
BackendRaises == [raises |-> TRUE]
BackendPages(pages) == [raises |-> FALSE, pages |-> pages]
SampleBackendOutcomes ==
    {BackendRaises} \cup {BackendPages(ps) : ps \in SeqsUpTo({"", "t"}, MaxPages)}

\* everything outside the PDF handlers
libraryVars == <<pc, llm_provider, llms, fa_clients, output_format, num_cases,
                 additional_files, additional_context, multi, idx,
                 all_results, response_content, calls, completed, failed,
                 net, inflight, root_result, result, outcome, error,
                 ctorVars, exportVars, analyzerVars>>

\* str.strip() of a text whose only whitespace is the line break
RECURSIVE LStrip(_)
LStrip(text) ==
    IF text # <<>> /\ Head(text) = NL THEN LStrip(Tail(text)) ELSE text
RECURSIVE RStrip(_)
RStrip(text) ==
    IF text # <<>> /\ text[Len(text)] = NL
    THEN RStrip(SubSeq(text, 1, Len(text) - 1)) ELSE text
Strip(text) == RStrip(LStrip(text))

\* content += page_text + "\n" for each page; skip_empty: the
\* `if page_text:` test of the pdfplumber loop
RECURSIVE AppendPages(_, _)
AppendPages(pages, skip_empty) ==
    IF pages = <<>> THEN <<>>
    ELSE (IF Head(pages) = ""
          THEN (IF skip_empty THEN <<>> ELSE <<NL>>)
          ELSE <<Head(pages), NL>>)
         \o AppendPages(Tail(pages), skip_empty)

\* "\n".join(texts)
RECURSIVE JoinLines(_)
JoinLines(texts) ==
    IF texts = <<>> THEN <<>>
    ELSE (IF Head(texts) = "" THEN <<>> ELSE <<Head(texts)>>)
         \o (IF Len(texts) > 1 THEN <<NL>> ELSE <<>>)
         \o JoinLines(Tail(texts))

PdfplumberFailed == <<"pdfplumber extraction failed">>
PyPDF2Failed == <<"PyPDF2 extraction failed">>
LibrariesMissing == <<"PDF processing libraries not available">>
CouldNotExtract == <<"Could not extract text from PDF file.">>

\* the pdfplumber branch: the content after it
PdfplumberContent(impl, got) ==
    IF impl = "unified"
    THEN (IF got.raises THEN PdfplumberFailed
          ELSE AppendPages(got.pages, TRUE))
    ELSE (IF got.raises THEN <<>> ELSE JoinLines(got.pages))

\* the PyPDF2 branch: the content after it
PyPDF2Content(impl, got) ==
    IF impl = "unified"
    THEN (IF got.raises THEN PyPDF2Failed
          ELSE AppendPages(got.pages, FALSE))
    ELSE (IF got.raises THEN <<>> ELSE JoinLines(got.pages))

\* whether control reaches the PyPDF2 branch: `elif PDF_AVAILABLE` in the
\* unified analyzer, `if not content and PDF_AVAILABLE` in the legacy one
ReachesPyPDF2(impl, args, content) ==
    IF impl = "unified"
    THEN ~args.pdfplumber_available /\ args.pdf_available
    ELSE content = <<>> /\ args.pdf_available

PdfArgs(impl, pdfplumber_available, pdf_available, pdfplumber, pypdf2) ==
    [impl |-> impl, pdfplumber_available |-> pdfplumber_available,
     pdf_available |-> pdf_available, pdfplumber |-> pdfplumber,
     pypdf2 |-> pypdf2]

\* _analyze_pdf_file(file_path, mime_type): entry
AnalyzePdfFile(args) ==
    /\ pdf_pc = "idle"
    /\ pdf_args' = args
    /\ pdf_content' = <<>>
    /\ pdf_attempts' = <<>>
    /\ pdf_pc' = "pdfplumber"
    /\ UNCHANGED <<libraryVars, webVars, apiVars>>

\* if PDFPLUMBER_AVAILABLE: try ... except
PdfTryPdfplumber ==
    /\ pdf_pc = "pdfplumber"
    /\ IF pdf_args.pdfplumber_available
       THEN /\ pdf_attempts' = Append(pdf_attempts, "pdfplumber")
            /\ pdf_content' = PdfplumberContent(pdf_args.impl,
                                                pdf_args.pdfplumber)
       ELSE UNCHANGED <<pdf_attempts, pdf_content>>
    /\ pdf_pc' = "pypdf2"
    /\ UNCHANGED <<libraryVars, webVars, apiVars, pdf_args>>

\* the PyPDF2 branch, and the else branch of the unified analyzer
PdfTryPyPDF2 ==
    /\ pdf_pc = "pypdf2"
    /\ IF ReachesPyPDF2(pdf_args.impl, pdf_args, pdf_content)
       THEN /\ pdf_attempts' = Append(pdf_attempts, "PyPDF2")
            /\ pdf_content' = PyPDF2Content(pdf_args.impl, pdf_args.pypdf2)
       ELSE /\ pdf_content' =
                   IF pdf_args.impl = "unified"
                      /\ ~pdf_args.pdfplumber_available
                   THEN LibrariesMissing ELSE pdf_content
            /\ UNCHANGED pdf_attempts
    /\ pdf_pc' = "return"
    /\ UNCHANGED <<libraryVars, webVars, apiVars, pdf_args>>

\* return FileAnalysisResult(..., content=...)
PdfReturn ==
    /\ pdf_pc = "return"
    /\ pdf_content' =
           IF pdf_args.impl = "unified" THEN Strip(pdf_content)
           ELSE IF pdf_content = <<>> THEN CouldNotExtract
           ELSE pdf_content
    /\ pdf_pc' = "done"
    /\ UNCHANGED <<libraryVars, webVars, apiVars, pdf_args, pdf_attempts>>

PdfNext ==
    \/ \E impl \in {"unified", "legacy"},
          pdfplumber_available \in BOOLEAN, pdf_available \in BOOLEAN,
          pdfplumber \in SampleBackendOutcomes,
          pypdf2 \in SampleBackendOutcomes :
            AnalyzePdfFile(PdfArgs(impl, pdfplumber_available, pdf_available,
                                   pdfplumber, pypdf2))
    \/ PdfTryPdfplumber
    \/ PdfTryPyPDF2
    \/ PdfReturn

PdfSpec == Init /\ [][PdfNext]_vars

\* the backend gave no text: it raised, or no page has a text layer
YieldsNoText(got) ==
    got.raises \/ \A k \in 1..Len(got.pages) : got.pages[k] = ""

PdfDone == pdf_pc = "done"
BothInstalled == pdf_args.pdfplumber_available /\ pdf_args.pdf_available

\* C23: with both libraries installed, PDF extraction asks pdfplumber
\* first; whenever pdfplumber yields no text, also by failing, PyPDF2 is
\* asked next; and when both yield no text the content is the fixed "could
\* not extract" message, not an empty string or a backend's error text.
C23_PdfFallbackChain ==
    (PdfDone /\ BothInstalled) =>
        /\ pdf_attempts # <<>> /\ pdf_attempts[1] = "pdfplumber"
        /\ YieldsNoText(pdf_args.pdfplumber) =>
               pdf_attempts = <<"pdfplumber", "PyPDF2">>
        /\ (YieldsNoText(pdf_args.pdfplumber)
            /\ YieldsNoText(pdf_args.pypdf2)) =>
               pdf_content = CouldNotExtract

(***************************************************************************)
(* The handler of POST /generate-bdd (web_app.py).  user_story is a        *)
(* sequence of characters, " " for whitespace; the generator is an         *)
(* instance of the class modelled above, of which the handler sees what    *)
(* __init__ and generate_test_cases return or raise.  An exception that    *)
(* leaves the handler and is no HTTPException is answered by the           *)
(* framework with status 500.                                              *)
(***************************************************************************)
MaxUploads == 2     \* most files a request uploads

SampleStories == {<<>>, <<" ", " ">>, <<"s">>, <<" ", "s">>}
SampleWebFormats == {"plain", "bdd", "both", "xml"}

\* not user_story.strip()
IsBlank(user_story) == \A k \in 1..Len(user_story) : user_story[k] = " "

HTTPException(status_code) ==
    MakeError("HTTPException", "http", None, None, status_code)
UnboundLocalError(name) ==
    MakeError("UnboundLocalError", "unbound_local", None, None, name)

WebArgs(user_story, selection, fmt, uploads) ==
    [user_story |-> user_story, llm_provider |-> selection,
     output_format |-> fmt, files |-> uploads]

\* what one generate_test_cases call of the handler can return or raise
GenerateOutcomes(generator, fmt) ==
    LET many == Len(generator) > 1
    IN  IF ~FormatAccepted(fmt)
        THEN {[ok |-> FALSE,
               error |-> IF many THEN AllFailedError ELSE InvalidFormatError]}
        ELSE {[ok |-> TRUE],
              [ok |-> FALSE,
               error |-> IF many THEN AllFailedError
                         ELSE GenerationError(fmt, generator[1], "invoke")]}

\* the formats the handler asks the generator for
FormatsAsked(fmt) == IF fmt = "both" THEN <<"plain", "bdd">> ELSE <<fmt>>

TempDir == <<"temp_dir">>
TempFile(k) == <<"temp_dir", k>>

\* a request arrives
GenerateBdd(args) ==
    /\ web_pc = "idle"
    /\ web_args' = args
    /\ web_pc' = "check"
    /\ UNCHANGED <<libraryVars, pdfVars, apiVars, web_locals, web_disk, web_exc,
                   web_chosen, web_response, web_generators, web_calls>>

\* if not user_story.strip(): raise HTTPException(status_code=400, ...)
WebCheckStory ==
    /\ web_pc = "check"
    /\ IF IsBlank(web_args.user_story)
       THEN /\ web_exc' = HTTPException(400)
            /\ web_pc' = "except"
       ELSE /\ web_pc' = "construct"
            /\ UNCHANGED web_exc
    /\ UNCHANGED <<libraryVars, pdfVars, apiVars, web_args, web_locals, web_disk,
                   web_chosen, web_response, web_generators, web_calls>>

\* generator = StoryBDDGenerator(...); additional_files = [];
\* temp_dir = None; temp_files = []
WebConstruct(keyed, gemini_ok) ==
    /\ web_pc = "construct"
    /\ LET built == InitLlms(web_args.llm_provider, keyed, gemini_ok)
       IN  IF built.ok
           THEN /\ web_generators' = web_generators + 1
                /\ web_locals' = [bound |-> TRUE, generator |-> built.llms,
                                  temp_dir |-> None, temp_files |-> <<>>]
                /\ web_pc' = "uploads"
                /\ UNCHANGED web_exc
           ELSE /\ web_exc' = built.error
                /\ web_pc' = "except"
                /\ UNCHANGED <<web_generators, web_locals>>
    /\ UNCHANGED <<libraryVars, pdfVars, apiVars, web_args, web_disk, web_chosen,
                   web_response, web_calls>>

\* if files: mkdtemp and the loop that saves the uploads; saved: how many
\* files were written before the loop ended, with an exception if that is
\* fewer than all; the except branch removes what was written
WebSaveUploads(saved) ==
    /\ web_pc = "uploads"
    /\ saved \in 0..web_args.files
    /\ web_args.files = 0 => saved = 0
    /\ IF web_args.files = 0
       THEN /\ web_pc' = "generate"
            /\ UNCHANGED <<web_locals, web_disk, web_exc>>
       ELSE IF saved = web_args.files
       THEN /\ web_locals' = [web_locals EXCEPT
                                 !.temp_dir = TempDir,
                                 !.temp_files = [k \in 1..saved |-> TempFile(k)]]
            /\ web_disk' = {TempDir} \cup {TempFile(k) : k \in 1..saved}
            /\ web_pc' = "generate"
            /\ UNCHANGED web_exc
       ELSE /\ web_locals' = [web_locals EXCEPT
                                 !.temp_dir = TempDir,
                                 !.temp_files = [k \in 1..saved |-> TempFile(k)]]
            /\ web_disk' = {}
            /\ web_exc' = HTTPException(500)
            /\ web_pc' = "except"
    /\ UNCHANGED <<libraryVars, pdfVars, apiVars, web_args, web_chosen, web_response,
                   web_generators, web_calls>>

\* the generate_test_cases calls, one per format asked, up to the first
\* that raises; outcomes: what each call does
WebGenerate(outcomes) ==
    /\ web_pc = "generate"
    /\ LET asked == FormatsAsked(web_args.output_format)
           Fails(k) == ~outcomes[k].ok
           bad == {k \in 1..Len(asked) : Fails(k)}
           first == IF bad = {} THEN 0
                    ELSE CHOOSE k \in bad : \A j \in bad : k <= j
       IN  /\ Len(outcomes) = Len(asked)
           /\ \A k \in 1..Len(asked) :
                  outcomes[k] \in GenerateOutcomes(web_locals.generator,
                                                   asked[k])
           /\ web_calls' = web_calls
                  \o (IF first = 0 THEN asked ELSE SubSeq(asked, 1, first))
           /\ IF first = 0
              THEN /\ web_chosen' = 200
                   /\ web_pc' = "finally"
                   /\ UNCHANGED web_exc
              ELSE /\ web_exc' = outcomes[first].error
                   /\ web_pc' = "except"
                   /\ UNCHANGED web_chosen
    /\ UNCHANGED <<libraryVars, pdfVars, apiVars, web_args, web_locals, web_disk,
                   web_response, web_generators>>

\* except ValueError: raise HTTPException(400); except Exception: raise
\* HTTPException(500)
StatusFor(exc) == IF exc.type = "ValueError" THEN 400 ELSE 500

WebExcept ==
    /\ web_pc = "except"
    /\ web_chosen' = StatusFor(web_exc)
    /\ web_exc' = HTTPException(StatusFor(web_exc))
    /\ web_pc' = "finally"
    /\ UNCHANGED <<libraryVars, pdfVars, apiVars, web_args, web_locals, web_disk,
                   web_response, web_generators, web_calls>>

\* the finally block: for temp_file in temp_files: unlink; rmtree(temp_dir,
\* ignore_errors=True).  unlink_ok: no file is held open by another process
WebFinally(unlink_ok) ==
    /\ web_pc = "finally"
    /\ IF ~web_locals.bound
       THEN /\ web_exc' = UnboundLocalError("temp_files")
            /\ UNCHANGED web_disk
       ELSE /\ web_disk' = IF unlink_ok THEN {} ELSE web_disk
            /\ UNCHANGED web_exc
    /\ web_pc' = "respond"
    /\ UNCHANGED <<libraryVars, pdfVars, apiVars, web_args, web_locals, web_chosen,
                   web_response, web_generators, web_calls>>

\* the framework turns what left the handler into the response
WebRespond ==
    /\ web_pc = "respond"
    /\ web_response' = IF web_exc.type = None THEN 200
                       ELSE IF web_exc.type = "HTTPException"
                       THEN web_exc.detail
                       ELSE 500
    /\ web_pc' = "responded"
    /\ UNCHANGED <<libraryVars, pdfVars, apiVars, web_args, web_locals, web_disk,
                   web_exc, web_chosen, web_generators, web_calls>>

WebNext ==
    \/ \E user_story \in SampleStories, selection \in SampleSelections,
          fmt \in SampleWebFormats, uploads \in 0..MaxUploads :
            GenerateBdd(WebArgs(user_story, selection, fmt, uploads))
    \/ WebCheckStory
    \/ \E keyed \in SUBSET ProviderNames, gemini_ok \in BOOLEAN :
            WebConstruct(keyed, gemini_ok)
    \/ \E saved \in 0..MaxUploads : WebSaveUploads(saved)
    \/ \E outcomes \in SeqsUpTo({[ok |-> TRUE]}
                                \cup {[ok |-> FALSE, error |-> e] :
                                        e \in {AllFailedError,
                                               InvalidFormatError}
                                              \cup {GenerationError(f, p, "invoke") :
                                                      f \in {"plain", "bdd"},
                                                      p \in ProviderNames}},
                                2) : WebGenerate(outcomes)
    \/ WebExcept
    \/ \E unlink_ok \in BOOLEAN : WebFinally(unlink_ok)
    \/ WebRespond

WebSpec == Init /\ [][WebNext]_vars

Responded == web_pc = "responded"

\* C21: a POST /generate-bdd whose user_story is empty or whitespace only
\* is answered with HTTP 400, and no generator is constructed or invoked
\* for it.
C21_BlankStoryIs400 ==
    (Responded /\ IsBlank(web_args.user_story)) =>
        /\ web_response = 400
        /\ web_generators = 0
        /\ web_calls = <<>>

\* C28: the cleanup block of /generate-bdd runs without raising on every
\* exit path, also when the request fails before the upload handling;
\* afterwards no uploaded temp file or temp directory remains, and the
\* status the handler chose (400 for a ValueError, 500 for any other
\* failure) is the one the client receives.
C28_CleanupNeverRaises ==
    Responded =>
        /\ web_exc.type # "UnboundLocalError"
        /\ web_disk = {}
        /\ web_response = web_chosen

(***************************************************************************)
(* The handler of POST /api/generate (api-server/app.py).  The server      *)
(* handles each request in a thread of its own, so the steps of two        *)
(* requests interleave; the clock advances between any two steps or not.   *)
(* A session id is the clock second it was formatted from.  A file on disk *)
(* is its directory, its name and the request that wrote it last.          *)
(***************************************************************************)
SampleUploadNames == {"a.txt", "b.txt"}
SampleApiArgs ==
    {[user_story |-> <<>>, uploads |-> {}]}
    \cup {[user_story |-> <<"s">>, uploads |-> u] :
             u \in {{}} \cup {{n} : n \in SampleUploadNames}}

\* f"session_{datetime.now().strftime('%Y%m%d_%H%M%S')}"
SessionId(now) == <<"session", now>>

\* a file name inside a session directory: user_story.txt,
\* input_files/<upload name> or <session_id>_<format>.md
FileName(kind, detail) == [kind |-> kind, detail |-> detail]

DiskFile(dir, name, by) == [dir |-> dir, name |-> name, by |-> by]

\* open(path, 'w') and write: whatever was at the path is replaced
WriteFiles(disk, dir, names, by) ==
    {f \in disk : ~(f.dir = dir /\ f.name \in names)}
    \cup {DiskFile(dir, n, by) : n \in names}

apiFrame == <<libraryVars, pdfVars, webVars>>

\* a request arrives
ApiGenerate(r, args) ==
    /\ api_pc[r] = "idle"
    /\ api_args' = [api_args EXCEPT ![r] = args]
    /\ api_pc' = [api_pc EXCEPT ![r] = "check"]
    /\ UNCHANGED <<apiFrame, api_clock, api_session, api_disk, api_written>>

\* if not user_story: return ..., 400
ApiCheckStory(r) ==
    /\ api_pc[r] = "check"
    /\ api_pc' = [api_pc EXCEPT
                     ![r] = IF IsBlank(api_args[r].user_story)
                            THEN "done" ELSE "session"]
    /\ UNCHANGED <<apiFrame, api_clock, api_args, api_session, api_disk,
                   api_written>>

\* session_id = ...; session_dir.mkdir(exist_ok=True)
ApiCreateSession(r) ==
    /\ api_pc[r] = "session"
    /\ api_session' = [api_session EXCEPT ![r] = SessionId(api_clock)]
    /\ api_pc' = [api_pc EXCEPT ![r] = "story"]
    /\ UNCHANGED <<apiFrame, api_clock, api_args, api_disk, api_written>>

\* the files a step of request r writes into its session directory
ApiWrite(r, names, next_pc) ==
    /\ api_disk' = WriteFiles(api_disk, api_session[r], names, r)
    /\ api_written' = [api_written EXCEPT
                          ![r] = @ \cup {[dir |-> api_session[r], name |-> n] :
                                            n \in names}]
    /\ api_pc' = [api_pc EXCEPT ![r] = next_pc]
    /\ UNCHANGED <<apiFrame, api_clock, api_args, api_session>>

\* with open(story_file, 'w') as f: f.write(user_story)
ApiSaveStory(r) ==
    /\ api_pc[r] = "story"
    /\ ApiWrite(r, {FileName("story", "user_story.txt")}, "uploads")

\* file_storage.save(input_dir / safe_name) for each upload
ApiSaveUploads(r) ==
    /\ api_pc[r] = "uploads"
    /\ ApiWrite(r, {FileName("input_files", n) : n \in api_args[r].uploads},
                "generate")

\* the generator is built and called; written: the markdown files of the
\* formats whose generation succeeded, none if the constructor failed
ApiGenerateAndWrite(r, written) ==
    /\ api_pc[r] = "generate"
    /\ ApiWrite(r, {FileName("markdown", fmt) : fmt \in written}, "done")

\* a second passes
ApiTick ==
    /\ api_clock < MaxClock
    /\ api_clock' = api_clock + 1
    /\ UNCHANGED <<apiFrame, api_pc, api_args, api_session, api_disk,
                   api_written>>

ApiNext ==
    \/ \E r \in Requests, args \in SampleApiArgs : ApiGenerate(r, args)
    \/ \E r \in Requests : ApiCheckStory(r)
    \/ \E r \in Requests : ApiCreateSession(r)
    \/ \E r \in Requests : ApiSaveStory(r)
    \/ \E r \in Requests : ApiSaveUploads(r)
    \/ \E r \in Requests, written \in SUBSET {"plain", "bdd"} :
            ApiGenerateAndWrite(r, written)
    \/ ApiTick

ApiSpec == Init /\ [][ApiNext]_vars

\* C25: every /api/generate request works in a session directory of its
\* own: two requests, also two handled at the same time or within the same
\* clock second, never share a session directory, and no request's
\* user_story.txt, upload or markdown file is overwritten by another.
C25_SessionDirectoryPerRequest ==
    /\ \A r1, r2 \in Requests :
           (r1 # r2 /\ api_session[r1] # NoSession /\ api_session[r2] # NoSession) =>
               api_session[r1] # api_session[r2]
    /\ \A r \in Requests :
           \A w \in api_written[r] : DiskFile(w.dir, w.name, r) \in api_disk

====
